---- MODULE Spec2Model ----
(***************************************************************************)
(* Model of the mycn18-worker orchestrator: the vm2 script engine          *)
(* (executeUserScript), the module gatekeeper (safeModuleResolver), the    *)
(* secret injector (resolveUserSecrets) and the webhook handler.           *)
(*                                                                         *)
(* Conventions.                                                            *)
(*  - A JavaScript string that the code only compares or passes on is a    *)
(*    TLA+ string.  An error message is the sequence of its words, so that *)
(*    String.includes is a search for consecutive words.                   *)
(*  - Node runs one JavaScript thread: `thread` names the run whose        *)
(*    synchronous code is executing; every other run waits at an await.    *)
(*  - Time is in milliseconds and advances by ClockStep.                   *)
(***************************************************************************)
EXTENDS Integers, Sequences, FiniteSets, TLC

VARIABLES
    userModules,  \* resolver.ts: module-level `let userModules`
    phase,        \* per run: where the call of executeUserScript stands
    args,         \* per run: the arguments of the call
    ip,           \* per run: next instruction of the user script
    wake,         \* per run: the timer the script is awaiting
    started,      \* per run: clock value when the call started
    outcomes,     \* per run: the ExecutionResults the call has returned
    resolved,     \* per run: log of the require() calls of its script
    scriptEnd,    \* per run: how the script itself ended, and with what value
    thread,       \* the run holding the JavaScript thread, or NoRun
    now,          \* wall clock, ms
    heap,         \* the state of the objects a script can write to
    pending,      \* per run: the callback its script left with the host's setTimeout
    logs,         \* the calls the structured logger and the host's console received
    db,           \* db.ts: module-level `let db`, the Firestore client or undefined
    tasksEnv,     \* whether the queue settings of process.env are all set
    backend,      \* which dispatchActionAsynchronously is built in: Cloud Tasks or BullMQ
    taskClient,   \* action.ts: module-level `let taskClient`
    actionQueue,  \* BullMQ dispatch: module-level `let actionQueue`
    constructions, \* how many queue clients the dispatch layer has constructed
    queue,        \* the jobs the queue backend has accepted
    dispatchStatus, \* per request: how dispatchActionAsynchronously ended
    failureChannel, \* the exhausted jobs reported to the operators
    auditSink,    \* per request: how each call of logExecution ended
    sends,        \* per caller: its call of sendActionWebhook
    hpc,          \* per request: where the webhook handler stands
    request,      \* per request: flowId and body
    flow,         \* per request: what getFlowDocument returned
    tasks,        \* per request: the promises of resolveUserSecrets, by key
    rejections,   \* per request: the keys whose promise rejected, in order
    secretsOutcome, \* per request: how resolveUserSecrets ended
    audit,        \* per request: the calls of logger.executionLog
    response,     \* per request: the HTTP responses sent
    invoked       \* per request: how often each collaborator was called

sandboxVars == <<heap, pending, logs>>

engineVars == <<sandboxVars, userModules, phase, args, ip, wake, started, outcomes,
                resolved, scriptEnd, thread, now>>

envVars == <<db, tasksEnv, backend>>

dispatchVars == <<taskClient, actionQueue, constructions, queue, dispatchStatus>>

opsVars == <<failureChannel, auditSink, sends>>

webVars == <<envVars, opsVars, dispatchVars, hpc, request, flow, tasks, rejections,
             secretsOutcome, audit, response, invoked>>

vars == <<engineVars, webVars>>

-----------------------------------------------------------------------------
(* Bounds of the model *)

ClockStep == 2500
MaxClock == 10000
MaxDeliveries == 4

(* Program constants *)

VmTimeoutMs == 5000
JobAttempts == 3
BackoffDelayMs == 1000
RequestLimitMs == 10000

Runs == {"A", "B"}
NoRun == "none"

-----------------------------------------------------------------------------
(* Values, messages.  The text of a JavaScript string value is a sequence  *)
(* of atoms: single characters, or whole words that are never split.       *)

Undefined == [t |-> "undefined", n |-> 0, s |-> <<>>]
Num(k) == [t |-> "number", n |-> k, s |-> <<>>]
Str(x) == [t |-> "string", n |-> 0, s |-> x]
Bool(x) == [t |-> "boolean", n |-> 0, s |-> x]
NaN == [t |-> "NaN", n |-> 0, s |-> <<>>]
Null == [t |-> "null", n |-> 0, s |-> <<>>]
CyclicObject == [t |-> "cyclic", n |-> 0, s |-> <<>>]
FunctionValue == [t |-> "function", n |-> 0, s |-> <<>>]

\* JSON.stringify succeeds on v and yields text that parses back to v
JsonSerializable(v) == v.t \notin {"cyclic", "function"}

\* String.prototype.includes on word sequences
Includes(msg, sub) ==
    \E i \in 0..(Len(msg) - Len(sub)) : SubSeq(msg, i + 1, i + Len(sub)) = sub

-----------------------------------------------------------------------------
(* Module gatekeeper: src/safe-mods/resolver.ts *)

NoModule == "undefined"

\* What every plain object literal inherits from Object.prototype
ObjectPrototype ==
    ("constructor" :> "Object") @@
    ("toString" :> "Object.prototype.toString") @@
    ("__proto__" :> "Object.prototype")

\* obj[key] of a plain object: own property, else inherited, else undefined
GetProp(obj, key) ==
    IF key \in DOMAIN obj THEN obj[key]
    ELSE IF key \in DOMAIN ObjectPrototype THEN ObjectPrototype[key]
    ELSE NoModule

Truthy(m) == m # NoModule

communityModules == ("lodash" :> "lodash@host")

DeniedMessage(moduleName) ==
    <<"Module", moduleName, "is", "not", "allowed", "or", "not", "found.">>

Found(m) == [ok |-> TRUE, module |-> m, error |-> <<>>]
Denied(moduleName) ==
    [ok |-> FALSE, module |-> NoModule, error |-> DeniedMessage(moduleName)]

\* The resolver's two lookups, against a given injected map
ResolveAgainst(moduleName, injected) ==
    IF Truthy(GetProp(communityModules, moduleName))
    THEN Found(GetProp(communityModules, moduleName))
    ELSE IF Truthy(GetProp(injected, moduleName))
    THEN Found(GetProp(injected, moduleName))
    ELSE Denied(moduleName)

\* A resolver that consults the injected map first
UserFirstResolver(moduleName) ==
    IF Truthy(GetProp(userModules, moduleName))
    THEN Found(GetProp(userModules, moduleName))
    ELSE IF Truthy(GetProp(communityModules, moduleName))
    THEN Found(GetProp(communityModules, moduleName))
    ELSE Denied(moduleName)

safeModuleResolver(moduleName) == ResolveAgainst(moduleName, userModules)

initializeUserModules(modules) == modules

-----------------------------------------------------------------------------
(* User scripts.  A script is the sequence of what it does that the host   *)
(* can observe: require a module, await, loop, return, throw.              *)

Require(m) == [op |-> "require", a |-> m, n |-> 0]
Await(ms) == [op |-> "await", a |-> "setTimeout", n |-> ms]
AwaitNever == [op |-> "await", a |-> "never", n |-> 0]
Loop == [op |-> "loop", a |-> "", n |-> 0]
Return(e) == [op |-> "return", a |-> e, n |-> 0]
Ref(id) == [op |-> "ref", a |-> id, n |-> 0]
Assign(target) == [op |-> "assign", a |-> target, n |-> 0]
Schedule(ms) == [op |-> "schedule", a |-> "setTimeout", n |-> ms]
Throw(x) == [op |-> "throw", a |-> x, n |-> 0]
Console(level, message) == [op |-> "console", a |-> level, n |-> 0, message |-> message]

Code(text, ok, body) == [text |-> text, syntaxOk |-> ok, body |-> body]

AddOne == Code("return payload.value + 1;", TRUE, <<Return("payload.value + 1")>>)
ReadEnv == Code("return env.FLOW_ID;", TRUE, <<Return("env.FLOW_ID")>>)
AsyncDone ==
    Code("await new Promise(resolve => setTimeout(resolve, 100)); return 'async_done';",
         TRUE, <<Await(100), Return("'async_done'")>>)
BadSyntax == Code("return (1 + 2", FALSE, <<>>)
BusyLoop == Code("while(true) {}", TRUE, <<Loop>>)
RequireLodash ==
    Code("const _ = require('lodash'); return _.isString('hello');",
         TRUE, <<Require("lodash"), Return("true")>>)
RequireUtils ==
    Code("const myUtils = require('my-utils'); return myUtils.add(2, 3);",
         TRUE, <<Require("my-utils"), Return("5")>>)
RequireFs == Code("require('fs');", TRUE, <<Require("fs")>>)
RequireConstructor ==
    Code("const m = require('constructor'); return typeof m;",
         TRUE, <<Require("constructor"), Return("typeof m")>>)
AwaitThenRequire ==
    Code("await new Promise(resolve => setTimeout(resolve, 100)); const myUtils = require('my-utils'); return myUtils.add(2, 3);",
         TRUE, <<Await(100), Require("my-utils"), Return("5")>>)
AwaitForever ==
    Code("await new Promise(() => {}); return 'never';",
         TRUE, <<AwaitNever, Return("'never'")>>)
AwaitLongTimer ==
    Code("await new Promise(resolve => setTimeout(resolve, 7500)); return 'late';",
         TRUE, <<Await(7500), Return("'late'")>>)
AwaitThenLoop ==
    Code("await null; while(true) {}", TRUE, <<Await(0), Loop>>)
ThrowError == Code("throw new Error('boom');", TRUE, <<Throw("Error")>>)
ThrowString == Code("throw 'boom';", TRUE, <<Throw("string")>>)
ThrowHostile ==
    Code("throw { toString() { throw new Error('x'); } };", TRUE, <<Throw("hostile")>>)
ReturnCyclic ==
    Code("const a = {}; a.self = a; return a;", TRUE, <<Return("cyclic")>>)
ReturnFunction == Code("return () => 1;", TRUE, <<Return("function")>>)
NoReturn == Code("const x = 1;", TRUE, <<>>)
ReadProcess == Code("return process.env;", TRUE, <<Ref("process"), Return("process.env")>>)
TypeofHttp == Code("return typeof http.get;", TRUE, <<Ref("http"), Return("typeof http.get")>>)
PatchLodash ==
    Code("const _ = require('lodash'); _.isString = () => true; return _.isString(1);",
         TRUE, <<Require("lodash"), Assign("lodash"), Return("true")>>)
Pollute ==
    Code("Object.prototype.polluted = 'I am polluted'; return {}.polluted;",
         TRUE, <<Assign("Object.prototype"), Return("{}.polluted")>>)
ReadPolluted == Code("return {}.polluted;", TRUE, <<Return("{}.polluted")>>)
LogAll ==
    Code("console.info('Test log from sandbox'); console.warn('careful'); console.error('bad'); return 'logged';",
         TRUE, <<Console("info", <<"Test", "log", "from", "sandbox">>),
                 Console("warn", <<"careful">>), Console("error", <<"bad">>),
                 Return("'logged'")>>)
ConsoleLog ==
    Code("console.log('plain'); return 'logged';",
         TRUE, <<Console("log", <<"plain">>), Return("'logged'")>>)
ScheduleLate ==
    Code("setTimeout(() => http.post(payload.url, {}), 2500); return 'scheduled';",
         TRUE, <<Schedule(2500), Return("'scheduled'")>>)

\* What a thrown value is on the host side of the catch
ThrownValue(x) ==
    CASE x = "Error"   -> [kind |-> "Error", message |-> <<"boom">>]
      [] x = "string"  -> [kind |-> "string", message |-> <<"boom">>]
      [] x = "hostile" -> [kind |-> "hostile", message |-> <<>>]

ErrorObject(msg) == [kind |-> "Error", message |-> msg]

\* The value of a return expression in the script's scope (payload, env)
Eval(e, payload, secrets) ==
    CASE e = "payload.value + 1" ->
            IF "value" \in DOMAIN payload /\ payload["value"].t = "number"
            THEN Num(payload["value"].n + 1) ELSE NaN
      [] e = "env.FLOW_ID" ->
            IF "FLOW_ID" \in DOMAIN secrets THEN Str(secrets["FLOW_ID"]) ELSE Undefined
      [] e = "'async_done'" -> Str(<<"async_done">>)
      [] e = "'never'" -> Str(<<"never">>)
      [] e = "'late'" -> Str(<<"late">>)
      [] e = "true" -> Bool(<<"true">>)
      [] e = "5" -> Num(5)
      [] e = "typeof m" -> Str(<<"function">>)
      [] e = "cyclic" -> CyclicObject
      [] e = "function" -> FunctionValue
      [] e = "typeof http.get" -> Str(<<"function">>)
      [] e = "'scheduled'" -> Str(<<"scheduled">>)
      [] e = "'logged'" -> Str(<<"logged">>)
      [] e = "process.env" -> Undefined

-----------------------------------------------------------------------------
(* The calls of executeUserScript the model makes *)

EmptyObject == <<>>
ValueTen == ("value" :> Num(10))
NoSecrets == <<>>
UtilsA == ("my-utils" :> "my-utils@A")
UtilsB == ("my-utils" :> "my-utils@B")
FakeLodash == ("lodash" :> "lodash@injected")

Call(c, p, s, m) == [userCode |-> c, payload |-> p, secrets |-> s, modules |-> m]

DirectCalls ==
    {Call(c, ValueTen, NoSecrets, EmptyObject) :
        c \in {AddOne, AsyncDone, BadSyntax, BusyLoop, RequireFs, RequireConstructor,
               AwaitForever, AwaitLongTimer, AwaitThenLoop, ThrowError, ThrowString,
               ThrowHostile, ReturnCyclic, ReturnFunction, NoReturn}}
    \cup {Call(c, ValueTen, NoSecrets, EmptyObject) :
            c \in {ReadProcess, TypeofHttp, PatchLodash, Pollute, ReadPolluted,
                   ScheduleLate, LogAll, ConsoleLog}}
    \cup {Call(AddOne, EmptyObject, NoSecrets, EmptyObject)}
    \cup {Call(c, EmptyObject, NoSecrets, m) :
            c \in {RequireLodash, RequireUtils, AwaitThenRequire},
            m \in {EmptyObject, UtilsA, UtilsB, FakeLodash}}

NoArgs == Call(NoReturn, EmptyObject, NoSecrets, EmptyObject)

-----------------------------------------------------------------------------
(* Script engine: executeUserScript (src/server.ts lines 198-259) *)

Body(r) == args[r].userCode.body
AtEnd(r) == ip[r] > Len(Body(r))
Instr(r) == Body(r)[ip[r]]
AtLoop(r) == ~AtEnd(r) /\ Instr(r).op = "loop"

\* The contexts in which JavaScript runs: the host's, and the one each
\* `new VM` creates
Contexts == Runs \cup {"host"}

\* An engine with one context for every run
SharedContext(r) == "host"

\* `const vm = new VM({...})` inside the call: a context of the call's own
ContextOf(r) == r

\* The objects of the model that a script can write to: the approved module
\* objects, which live on the host, and Object.prototype of every context
HostObject(module) == <<module, "host">>
ObjectPrototypeOf(ctx) == <<"Object.prototype", ctx>>
HeapObjects ==
    {HostObject(communityModules[m]) : m \in DOMAIN communityModules}
        \cup {ObjectPrototypeOf(ctx) : ctx \in Contexts}

\* sandbox: { payload, env, console, http, setTimeout, clearTimeout }
SandboxGlobals == {"payload", "env", "console", "http", "setTimeout", "clearTimeout"}

ReferenceErrorMessage(id) == <<id, "is", "not", "defined">>

\* The value of a return expression, in run r's scope and context
ValueIn(r, e) ==
    IF e = "{}.polluted"
    THEN IF heap[ObjectPrototypeOf(ContextOf(r))] = "patched"
         THEN Str(<<"I", "am", "polluted">>) ELSE Undefined
    ELSE Eval(e, args[r].payload, args[r].secrets)

\* r's script is executing: inside vm.run, or in a continuation after an await
OnThread(r) == thread = r /\ phase[r] \in {"vmrun", "cont"}

\* A success that drops the script's value
ExecutionSuccessNoResult(result) == [success |-> TRUE, result |-> Undefined]

\* return { success: true, result }
ExecutionSuccess(result) == [success |-> TRUE, result |-> result]
ExecutionFailure(errorMessage) == [success |-> FALSE, error |-> errorMessage]

SyntaxErrorMessage == <<"Unexpected", "token", "'}'">>
TimeoutMessage == <<"Script", "execution", "timed", "out", "after", "5000ms">>

\* String(error): the conversion of a thrown non-Error value; it throws when
\* the value's own toString throws
StringOf(error) ==
    IF error.kind = "string"
    THEN [ok |-> TRUE, text |-> error.message]
    ELSE [ok |-> FALSE, text |-> <<>>]

\* error instanceof Error ? error.message : String(error)
ErrorMessageOf(error) ==
    IF error.kind = "Error"
    THEN [ok |-> TRUE, text |-> error.message]
    ELSE StringOf(error)

\* The call returns (its promise fulfils with) `result`
Returns(r, result) ==
    /\ phase' = [phase EXCEPT ![r] = "returned"]
    /\ outcomes' = [outcomes EXCEPT ![r] = Append(@, result)]
    /\ thread' = NoRun

\* The call's promise rejects: an exception left executeUserScript
Rejects(r) ==
    /\ phase' = [phase EXCEPT ![r] = "rejected"]
    /\ outcomes' = outcomes
    /\ thread' = NoRun

\* catch (error) { errorMessage = ...; return { success: false, error } }
Catch(r, error) ==
    IF ErrorMessageOf(error).ok
    THEN Returns(r, ExecutionFailure(ErrorMessageOf(error).text))
    ELSE Rejects(r)

Ended(r, how, value) ==
    scriptEnd' = [scriptEnd EXCEPT ![r] = [how |-> how, value |-> value, at |-> now]]

\* vm2 never interrupts the script
VmNeverTimesOut(r) == FALSE

\* new VM({ timeout: 5000 }): the synchronous run inside vm.run is interrupted
\* once it has lasted the timeout
VmTimedOut(r) == now - started[r] >= VmTimeoutMs

\* The call, up to the start of vm.run
ExecuteUserScript(r, call) ==
    /\ phase[r] = "idle"
    /\ thread = NoRun
    /\ args' = [args EXCEPT ![r] = call]
    /\ userModules' = initializeUserModules(call.modules)
    /\ started' = [started EXCEPT ![r] = now]
    /\ IF call.userCode.syntaxOk
       THEN /\ phase' = [phase EXCEPT ![r] = "vmrun"]
            /\ thread' = r
            /\ UNCHANGED <<outcomes, scriptEnd>>
       ELSE /\ Catch(r, ErrorObject(SyntaxErrorMessage))
            /\ Ended(r, "syntax", Undefined)
    /\ UNCHANGED <<sandboxVars, ip, wake, resolved, now>>

\* require(name) in the script: vm2 hands the name to safeModuleResolver
ScriptRequire(r) ==
    /\ OnThread(r)
    /\ ~AtEnd(r)
    /\ Instr(r).op = "require"
    /\ LET res == safeModuleResolver(Instr(r).a) IN
        /\ resolved' = [resolved EXCEPT ![r] =
              Append(@, [name |-> Instr(r).a, result |-> res, injected |-> userModules])]
        /\ IF res.ok
           THEN /\ ip' = [ip EXCEPT ![r] = @ + 1]
                /\ UNCHANGED <<phase, outcomes, thread, scriptEnd>>
           ELSE /\ ip' = ip
                /\ Catch(r, ErrorObject(res.error))
                /\ Ended(r, "throw", Undefined)
    /\ UNCHANGED <<sandboxVars, userModules, args, wake, started, now>>
    /\ UNCHANGED webVars

\* await in the script: the run leaves the thread until the awaited promise settles
ScriptAwait(r) ==
    /\ OnThread(r)
    /\ ~AtEnd(r)
    /\ Instr(r).op = "await"
    /\ phase' = [phase EXCEPT ![r] = "suspended"]
    /\ wake' = [wake EXCEPT ![r] =
                  [timer |-> Instr(r).a = "setTimeout", at |-> now + Instr(r).n]]
    /\ ip' = [ip EXCEPT ![r] = @ + 1]
    /\ thread' = NoRun
    /\ UNCHANGED <<sandboxVars, userModules, args, started, outcomes, resolved, scriptEnd, now>>
    /\ UNCHANGED webVars

TimerDue(r) == phase[r] = "suspended" /\ wake[r].timer /\ now >= wake[r].at

\* The awaited timer fires: the script continues, outside vm.run
TimerFires(r) ==
    /\ thread = NoRun
    /\ TimerDue(r)
    /\ phase' = [phase EXCEPT ![r] = "cont"]
    /\ thread' = r
    /\ UNCHANGED <<sandboxVars, userModules, args, ip, wake, started, outcomes, resolved, scriptEnd, now>>
    /\ UNCHANGED webVars

\* return in the script: `const result = await vm.run(script); return { success: true, result }`
ScriptReturn(r) ==
    /\ OnThread(r)
    /\ ~AtEnd(r)
    /\ Instr(r).op = "return"
    /\ LET v == ValueIn(r, Instr(r).a) IN
        /\ Returns(r, ExecutionSuccess(v))
        /\ Ended(r, "return", v)
    /\ UNCHANGED <<sandboxVars, userModules, args, ip, wake, started, resolved, now>>
    /\ UNCHANGED webVars

\* The script's last statement is done and it returned nothing
ScriptEnds(r) ==
    /\ OnThread(r)
    /\ AtEnd(r)
    /\ Returns(r, ExecutionSuccess(Undefined))
    /\ Ended(r, "return", Undefined)
    /\ UNCHANGED <<sandboxVars, userModules, args, ip, wake, started, resolved, now>>
    /\ UNCHANGED webVars

\* A free identifier in the script: found in the sandbox's globals, or a
\* ReferenceError
ScriptRef(r) ==
    /\ OnThread(r)
    /\ ~AtEnd(r)
    /\ Instr(r).op = "ref"
    /\ IF Instr(r).a \in SandboxGlobals
       THEN /\ ip' = [ip EXCEPT ![r] = @ + 1]
            /\ UNCHANGED <<phase, outcomes, thread, scriptEnd>>
       ELSE /\ ip' = ip
            /\ Catch(r, ErrorObject(ReferenceErrorMessage(Instr(r).a)))
            /\ Ended(r, "throw", Undefined)
    /\ UNCHANGED <<sandboxVars, userModules, args, wake, started, resolved, now>>
    /\ UNCHANGED webVars

\* console as the host's own console would take the call
HostConsole(level, message) ==
    [sink |-> "console", level |-> level, message |-> message]

\* The `console` of the sandbox: each method hands the message, prefixed, to
\* the structured logger's method of the same name
sandboxedLogger(level, message) ==
    [sink |-> "logger", level |-> level, message |-> <<"[USER_SCRIPT]">> \o message]

\* The methods the sandbox's console has
ConsoleMethods == {"info", "warn", "error"}

TypeErrorMessage(callee) == <<callee, "is", "not", "a", "function">>

\* console.<level>(message) in the script
ScriptConsole(r) ==
    /\ OnThread(r)
    /\ ~AtEnd(r)
    /\ Instr(r).op = "console"
    /\ IF Instr(r).a \in ConsoleMethods
       THEN /\ logs' = Append(logs, [run |-> r] @@ sandboxedLogger(Instr(r).a, Instr(r).message))
            /\ ip' = [ip EXCEPT ![r] = @ + 1]
            /\ UNCHANGED <<phase, outcomes, thread, scriptEnd>>
       ELSE /\ UNCHANGED <<logs, ip>>
            /\ Catch(r, ErrorObject(TypeErrorMessage("console." \o Instr(r).a)))
            /\ Ended(r, "throw", Undefined)
    /\ UNCHANGED <<heap, pending, userModules, args, wake, started, resolved, now>>
    /\ UNCHANGED webVars

\* The object a script's assignment lands on: Object.prototype of its own
\* context, or, through the proxy vm2 wraps it in, the host object of the
\* module it required last
AssignedObject(r, target) ==
    IF target = "Object.prototype"
    THEN ObjectPrototypeOf(ContextOf(r))
    ELSE HostObject(resolved[r][Len(resolved[r])].result.module)

\* The script assigns to a property of an object it holds
ScriptAssign(r) ==
    /\ OnThread(r)
    /\ ~AtEnd(r)
    /\ Instr(r).op = "assign"
    /\ heap' = [o \in DOMAIN heap |->
                  IF o = AssignedObject(r, Instr(r).a) THEN "patched" ELSE heap[o]]
    /\ ip' = [ip EXCEPT ![r] = @ + 1]
    /\ UNCHANGED <<pending, logs, userModules, phase, args, wake, started, outcomes, resolved,
                   scriptEnd, thread, now>>
    /\ UNCHANGED webVars

\* setTimeout(callback, ms) in the script, not awaited: the host's own
\* setTimeout takes the callback
ScriptSchedule(r) ==
    /\ OnThread(r)
    /\ ~AtEnd(r)
    /\ Instr(r).op = "schedule"
    /\ pending' = [pending EXCEPT ![r] =
                     [state |-> "armed", at |-> now + Instr(r).n, afterReturn |-> FALSE]]
    /\ ip' = [ip EXCEPT ![r] = @ + 1]
    /\ UNCHANGED <<heap, logs, userModules, phase, args, wake, started, outcomes, resolved,
                   scriptEnd, thread, now>>
    /\ UNCHANGED webVars

CallbackDue(r) == pending[r].state = "armed" /\ now >= pending[r].at

\* The host's timer runs the callback the script left behind
CallbackFires(r) ==
    /\ thread = NoRun
    /\ CallbackDue(r)
    /\ pending' = [pending EXCEPT ![r] =
                     [state |-> "fired", at |-> now,
                      afterReturn |-> phase[r] \in {"returned", "rejected"}]]
    /\ UNCHANGED <<heap, logs, userModules, phase, args, ip, wake, started, outcomes, resolved,
                   scriptEnd, thread, now>>
    /\ UNCHANGED webVars

\* throw in the script, not caught by it
ScriptThrow(r) ==
    /\ OnThread(r)
    /\ ~AtEnd(r)
    /\ Instr(r).op = "throw"
    /\ Catch(r, ThrownValue(Instr(r).a))
    /\ Ended(r, "throw", Undefined)
    /\ UNCHANGED <<sandboxVars, userModules, args, ip, wake, started, resolved, now>>
    /\ UNCHANGED webVars

\* vm.run throws the timeout error out of a script that is still running
VmTimeout(r) ==
    /\ thread = r
    /\ phase[r] = "vmrun"
    /\ AtLoop(r)
    /\ VmTimedOut(r)
    /\ Catch(r, ErrorObject(TimeoutMessage))
    /\ Ended(r, "timeout", Undefined)
    /\ UNCHANGED <<sandboxVars, userModules, args, ip, wake, started, resolved, now>>
    /\ UNCHANGED webVars

\* Time passes.  Statements other than a loop take no time; a due timer
\* fires before the clock moves on when the thread is free; vm.run's timeout
\* fires as soon as it is due.
Tick ==
    /\ now < MaxClock
    /\ thread = NoRun => \A r \in Runs : ~TimerDue(r) /\ ~CallbackDue(r)
    /\ thread # NoRun => AtLoop(thread) /\ (phase[thread] = "vmrun" => ~VmTimedOut(thread))
    /\ now' = now + ClockStep
    /\ UNCHANGED <<sandboxVars, userModules, phase, args, ip, wake, started, outcomes, resolved,
                   scriptEnd, thread>>
    /\ UNCHANGED webVars

\* A caller other than the webhook handler (the tests) calls the engine
DirectCall(r) ==
    /\ \E call \in DirectCalls : ExecuteUserScript(r, call)
    /\ UNCHANGED webVars

-----------------------------------------------------------------------------
(* Secret injector: src/secrets.ts *)

RECURSIVE Split(_, _)
\* String.split on a separator atom
Split(str, sep) ==
    IF \A i \in 1..Len(str) : str[i] # sep
    THEN <<str>>
    ELSE LET i == CHOOSE j \in 1..Len(str) :
                    str[j] = sep /\ \A k \in 1..(j - 1) : str[k] # sep
         IN <<SubSeq(str, 1, i - 1)>> \o Split(SubSeq(str, i + 1, Len(str)), sep)

Digits == {"0", "1", "2", "3", "4", "5", "6", "7", "8", "9"}

\* /^projects\/[^\/]+\/secrets\/[^\/]+\/versions\/(latest|\d+)$/ .test(value)
GSM_RESOURCE_REGEX(value) ==
    LET seg == Split(value, "/") IN
    /\ Len(seg) = 6
    /\ seg[1] = <<"projects">>
    /\ seg[2] # <<>>
    /\ seg[3] = <<"secrets">>
    /\ seg[4] # <<>>
    /\ seg[5] = <<"versions">>
    /\ \/ seg[6] = <<"latest">>
       \/ seg[6] # <<>> /\ \A i \in 1..Len(seg[6]) : seg[6][i] \in Digits

\* A test that takes every non-empty value for a reference
AnyValueIsReference(value) == value # <<>>

\* `value && GSM_RESOURCE_REGEX.test(value)`
IsGsmReference(value) == value # <<>> /\ GSM_RESOURCE_REGEX(value)

\* What Secret Manager can answer to accessSecretVersion
GsmReplies == {"data", "empty", "error"}

GsmData(secretResourceName) == <<"value-of:">> \o secretResourceName

\* A lookup that returns whatever text the resolver answered, also none
AcceptsEmptyData(secretResourceName, reply) ==
    IF reply = "data"
    THEN [state |-> "fulfilled", value |-> GsmData(secretResourceName), error |-> <<>>]
    ELSE IF reply = "empty"
    THEN [state |-> "fulfilled", value |-> <<>>, error |-> <<>>]
    ELSE [state |-> "rejected", value |-> <<>>,
          error |-> <<"Failed", "to", "resolve", "secret">> \o secretResourceName]

\* getSecretFromGSM: the secret's text, or the error it throws
getSecretFromGSM(secretResourceName, reply) ==
    IF reply = "data"
    THEN [state |-> "fulfilled", value |-> GsmData(secretResourceName), error |-> <<>>]
    ELSE [state |-> "rejected", value |-> <<>>,
          error |-> <<"Failed", "to", "resolve", "secret">> \o secretResourceName]

\* An injector that asks the resolver for every value
AlwaysAskResolver(value) == [state |-> "pending", value |-> value, error |-> <<>>]

\* The promise of one key of resolveUserSecrets, before any answer
ResolutionPromise(value) ==
    IF IsGsmReference(value)
    THEN [state |-> "pending", value |-> value, error |-> <<>>]
    ELSE [state |-> "fulfilled", value |-> value, error |-> <<>>]

\* resolveUserSecrets of the passthrough injector: `return
\* Promise.resolve(flowSecrets)`, the object it was given
PassthroughResolveUserSecrets(flowSecrets) ==
    [status |-> "fulfilled", map |-> flowSecrets]

\* A combinator that waits for every promise and keeps what fulfilled
PromiseAllSettled(ts, order) ==
    IF \E k \in DOMAIN ts : ts[k].state = "pending"
    THEN [status |-> "pending"]
    ELSE [status |-> "fulfilled",
          map |-> [k \in {j \in DOMAIN ts : ts[j].state = "fulfilled"} |-> ts[k].value]]

\* Promise.all(resolutionPromises), then Object.fromEntries: rejects with the
\* first rejection, fulfils once every promise has
PromiseAll(ts, order) ==
    IF order # <<>>
    THEN [status |-> "rejected", error |-> ts[order[1]].error]
    ELSE IF \A k \in DOMAIN ts : ts[k].state = "fulfilled"
    THEN [status |-> "fulfilled", map |-> [k \in DOMAIN ts |-> ts[k].value]]
    ELSE [status |-> "pending"]

-----------------------------------------------------------------------------
(* Flow store: src/db.ts, src/types.ts *)

GsmRef(project, secret, version) ==
    <<"projects", "/", project, "/", "secrets", "/", secret, "/", "versions", "/">>
        \o version

RefApiKey == GsmRef("p1", "api-key", <<"latest">>)
RefDbPass == GsmRef("p1", "db-pass", <<"4", "2">>)

\* Values that look like a reference and are none: a version that is not a
\* number, a path that goes on after the version
RefBadVersion == GsmRef("p1", "api-key", <<"v", "1">>)
RefTooDeep == RefApiKey \o <<"/", "metadata">>

FlowDocument(id, active, code, refs) ==
    [userId |-> "user123", flowId |-> id, flowName |-> "Flow " \o id, isActive |-> active,
     userCode |-> code, secretReferences |-> refs, actionUrl |-> "https://example.com/" \o id]

\* The documents of the 'flows' collection
FlowStore ==
    ("f-ok" :> FlowDocument("f-ok", TRUE, AddOne,
                    ("API_KEY" :> RefApiKey) @@ ("REGION" :> <<"eu">>))) @@
    ("f-two" :> FlowDocument("f-two", TRUE, ReadEnv,
                    ("A" :> RefApiKey) @@ ("B" :> RefDbPass) @@ ("C" :> <<"literal">>))) @@
    ("f-throw" :> FlowDocument("f-throw", TRUE, ThrowError, <<>>)) @@
    ("f-loop" :> FlowDocument("f-loop", TRUE, BusyLoop, <<>>)) @@
    ("f-async" :> FlowDocument("f-async", TRUE, AsyncDone, <<>>)) @@
    ("f-lodash" :> FlowDocument("f-lodash", TRUE, RequireLodash, <<>>)) @@
    ("f-void" :> FlowDocument("f-void", TRUE, NoReturn, <<>>)) @@
    ("f-hostile" :> FlowDocument("f-hostile", TRUE, ThrowHostile, <<>>)) @@
    ("f-fn" :> FlowDocument("f-fn", TRUE, ReturnFunction, <<>>)) @@
    ("f-cyclic" :> FlowDocument("f-cyclic", TRUE, ReturnCyclic, <<>>)) @@
    ("f-env" :> FlowDocument("f-env", TRUE, ReadEnv,
                    ("FLOW_ID" :> <<"spoofed">>) @@ ("OLD" :> RefBadVersion) @@
                    ("DEEP" :> RefTooDeep) @@ ("EMPTY" :> <<>>))) @@
    ("f-off" :> FlowDocument("f-off", FALSE, AddOne, ("API_KEY" :> RefApiKey)))

RequestFlowIds == DOMAIN FlowStore \cup {"f-none"}

RequestBodies ==
    {[json |-> TRUE, payload |-> ValueTen], [json |-> FALSE, payload |-> EmptyObject]}

\* A lookup that returns whatever is stored under the id
StoredDocument(flowId, readOk) ==
    IF flowId \in DOMAIN FlowStore THEN <<FlowStore[flowId]>> ELSE <<>>

\* getFlowDocument once db is set: the active document, else null
getFlowDocument(flowId, readOk) ==
    IF readOk /\ flowId \in DOMAIN FlowStore /\ FlowStore[flowId].isActive
    THEN <<FlowStore[flowId]>>
    ELSE <<>>

-----------------------------------------------------------------------------
(* Action dispatch: src/action.ts *)

\* JSON.stringify on a property value: undefined and functions are left
\* out, NaN becomes null, a cyclic object makes it throw
JsonKeeps(v) == v.t \notin {"undefined", "function"}
JsonThrows(v) == v.t = "cyclic"
JsonValue(v) == IF v.t = "NaN" THEN Null ELSE v

\* JSON.stringify(taskPayload) / the job data BullMQ serialises
TaskBody(flowDoc, result) ==
    IF JsonThrows(result)
    THEN [ok |-> FALSE]
    ELSE IF ~JsonKeeps(result)
    THEN [ok |-> TRUE,
          body |-> [flowId |-> flowDoc.flowId, actionUrl |-> flowDoc.actionUrl,
                    userId |-> flowDoc.userId]]
    ELSE [ok |-> TRUE,
          body |-> [flowId |-> flowDoc.flowId, actionUrl |-> flowDoc.actionUrl,
                    userId |-> flowDoc.userId, result |-> JsonValue(result)]]

\* The options a job is enqueued with: none for a Cloud Tasks task, the
\* retry policy for a BullMQ job
NoJobOptions == <<>>
BullMqJobOptions ==
    <<[attempts |-> JobAttempts, backoff |-> [type |-> "exponential", delay |-> BackoffDelayMs]]>>

\* An enqueue that answers only after the job was delivered
JobDeliveredOnReturn(body, opts) ==
    [body |-> body, opts |-> opts, attemptsMade |-> 1, state |-> "completed",
     retryAt |-> 0, failedAt |-> 0]

\* A job as the queue backend holds it
Job(body, opts) ==
    [body |-> body, opts |-> opts, attemptsMade |-> 0, state |-> "waiting",
     retryAt |-> 0, failedAt |-> 0]

-----------------------------------------------------------------------------
(* Webhook handler: app.post('/api/webhook/:flowId') (src/server.ts 22-174) *)

Count(r, callee) == invoked' = [invoked EXCEPT ![r][callee] = @ + 1]

\* logger.executionLog(record), then `return c.json(body, code)`
Respond(r, record, body) ==
    /\ audit' = [audit EXCEPT ![r] = Append(@, record)]
    /\ response' = [response EXCEPT ![r] = Append(@, body)]
    /\ hpc' = [hpc EXCEPT ![r] = "done"]

\* An exception leaves the handler: the framework answers 500
Crash(r) ==
    /\ response' = [response EXCEPT ![r] =
                      Append(@, [code |-> 500, text |-> "Internal Server Error"])]
    /\ hpc' = [hpc EXCEPT ![r] = "crashed"]
    /\ audit' = audit

FlowId(r) == request[r].flowId
Payload(r) == request[r].body.payload
UserId(r) == IF flow[r] # <<>> THEN flow[r][1].userId ELSE "unknown"

\* A transport that takes every body for JSON
EveryBodyParses(body) == TRUE

\* `payload = await c.req.json()` does not throw
BodyParses(body) == body.json

\* The request arrives: parse the body, call getFlowDocument
Receive(r, flowId, body) ==
    /\ hpc[r] = "idle"
    /\ thread = NoRun
    /\ request' = [request EXCEPT ![r] = [flowId |-> flowId, body |-> body]]
    /\ IF ~BodyParses(body)
       THEN /\ Respond(r,
                  [flowId |-> flowId, userId |-> "unknown", flowName |-> "unknown",
                   status |-> "FAIL", payload |-> EmptyObject,
                   error |-> <<"Failed", "to", "parse", "request", "body", "as", "JSON:",
                               "Unexpected", "token">>],
                  [code |-> 400, status |-> "rejected", flowId |-> flowId,
                   message |-> <<"Failed", "to", "parse", "request", "body:",
                                 "Unexpected", "token">>])
            /\ invoked' = invoked
       ELSE /\ Count(r, "getFlowDocument")
            /\ IF db = "undefined"
               THEN Crash(r)
               ELSE /\ hpc' = [hpc EXCEPT ![r] = "loadFlow"]
                    /\ UNCHANGED <<audit, response>>
    /\ UNCHANGED <<envVars, opsVars, dispatchVars, flow, tasks, rejections, secretsOutcome>>
    /\ UNCHANGED engineVars

\* A handler that lets every answer of getFlowDocument through
NeverShortCircuits(doc) == FALSE

\* `if (!flow || !flow.isActive)`
NotFoundOrInactive(doc) == doc = <<>> \/ ~doc[1].isActive

\* getFlowDocument answers; an active flow goes on to resolveUserSecrets,
\* whose promises start
FlowLoaded(r, readOk) ==
    /\ hpc[r] = "loadFlow"
    /\ thread = NoRun
    /\ LET doc == getFlowDocument(FlowId(r), readOk) IN
        /\ flow' = [flow EXCEPT ![r] = doc]
        /\ IF NotFoundOrInactive(doc)
           THEN /\ Respond(r,
                      [flowId |-> FlowId(r),
                       userId |-> IF doc # <<>> THEN doc[1].userId ELSE "unknown",
                       flowName |-> IF doc # <<>> THEN doc[1].flowName ELSE "unknown",
                       status |-> "FAIL", payload |-> Payload(r),
                       error |-> <<"Flow", FlowId(r), "not", "found,", "inactive,", "or",
                                   "DB", "connection", "failed.">>],
                      [code |-> 404, status |-> "rejected", flowId |-> FlowId(r),
                       message |-> <<"Flow", FlowId(r), "not", "found,", "inactive,", "or",
                                     "DB", "connection", "failed.">>])
                /\ UNCHANGED <<tasks, invoked>>
           ELSE IF doc = <<>>
           THEN \* `const { userCode, ... } = flow` of null throws
                /\ Crash(r)
                /\ UNCHANGED <<tasks, invoked>>
           ELSE /\ Count(r, "resolveUserSecrets")
                /\ tasks' = [tasks EXCEPT ![r] =
                      [k \in DOMAIN doc[1].secretReferences |->
                          ResolutionPromise(doc[1].secretReferences[k])]]
                /\ hpc' = [hpc EXCEPT ![r] = "secrets"]
                /\ UNCHANGED <<audit, response>>
    /\ UNCHANGED <<envVars, opsVars, dispatchVars, request, rejections, secretsOutcome>>
    /\ UNCHANGED engineVars

\* Secret Manager answers the lookup of one key
GsmAnswers(r, k, reply) ==
    /\ thread = NoRun
    /\ k \in DOMAIN tasks[r]
    /\ tasks[r][k].state = "pending"
    /\ LET settled == getSecretFromGSM(tasks[r][k].value, reply) IN
        /\ tasks' = [tasks EXCEPT ![r][k] = settled]
        /\ rejections' = [rejections EXCEPT ![r] =
              IF settled.state = "rejected" THEN Append(@, k) ELSE @]
    /\ UNCHANGED <<envVars, opsVars, dispatchVars, hpc, request, flow, secretsOutcome,
                   audit, response, invoked>>
    /\ UNCHANGED engineVars

\* { FLOW_ID: flowId, ...resolvedSecrets }: the flow's own entry wins
FlowSecretsWin(resolvedSecrets, flowId) ==
    [k \in DOMAIN resolvedSecrets \cup {"FLOW_ID"} |->
        IF k \in DOMAIN resolvedSecrets THEN resolvedSecrets[k] ELSE <<flowId>>]

\* { ...resolvedSecrets, FLOW_ID: flowId }
ExecutionSecrets(resolvedSecrets, flowId) ==
    [k \in DOMAIN resolvedSecrets \cup {"FLOW_ID"} |->
        IF k = "FLOW_ID" THEN <<flowId>> ELSE resolvedSecrets[k]]

\* A handler that goes on to run the script without secrets
SecretsRejectedIgnored(r, error) ==
    /\ ExecuteUserScript(r, Call(flow[r][1].userCode, Payload(r),
                                 ExecutionSecrets(<<>>, FlowId(r)), EmptyObject))
    /\ Count(r, "executeUserScript")
    /\ hpc' = [hpc EXCEPT ![r] = "exec"]
    /\ UNCHANGED <<audit, response>>

\* catch (error) of `await resolveUserSecrets(secretReferences)`
SecretsRejected(r, error) ==
    /\ Respond(r,
          [flowId |-> FlowId(r), userId |-> UserId(r), flowName |-> flow[r][1].flowName,
           status |-> "FAIL", payload |-> Payload(r),
           error |-> <<"Secret", "resolution", "failed:">> \o ErrorMessageOf(error).text],
          [code |-> 500, status |-> "failed", flowId |-> FlowId(r),
           message |-> <<"Secret", "resolution", "failed:">> \o ErrorMessageOf(error).text])
    /\ invoked' = invoked
    /\ UNCHANGED engineVars

\* The secrets resolved: build the environment and call executeUserScript
SecretsResolved(r, resolvedSecrets) ==
    /\ ExecuteUserScript(r, Call(flow[r][1].userCode, Payload(r),
                                 ExecutionSecrets(resolvedSecrets, FlowId(r)), EmptyObject))
    /\ Count(r, "executeUserScript")
    /\ hpc' = [hpc EXCEPT ![r] = "exec"]
    /\ UNCHANGED <<audit, response>>

\* resolveUserSecrets settles and the handler continues
SecretsSettled(r) ==
    /\ hpc[r] = "secrets"
    /\ thread = NoRun
    /\ LET res == PromiseAll(tasks[r], rejections[r]) IN
        /\ res.status # "pending"
        /\ secretsOutcome' = [secretsOutcome EXCEPT ![r] = res]
        /\ IF res.status = "rejected"
           THEN SecretsRejected(r, ErrorObject(res.error))
           ELSE SecretsResolved(r, res.map)
    /\ UNCHANGED <<envVars, opsVars, dispatchVars, request, flow, tasks, rejections>>

LowerWord(w) ==
    CASE w = "Script" -> "script"
      [] w = "Timeout" -> "timeout"
      [] w = "Unexpected" -> "unexpected"
      [] w = "Module" -> "module"
      [] OTHER -> w

\* String.prototype.toLowerCase
ToLowerCase(msg) == [i \in 1..Len(msg) |-> LowerWord(msg[i])]

\* executionResult.result: undefined on a failure
ResultOf(executionResult) ==
    IF "result" \in DOMAIN executionResult THEN executionResult.result ELSE Undefined

\* A handler that dispatches whatever the engine returned
AlwaysDispatch(executionResult) == TRUE

\* `if (executionResult.success)`
ShouldDispatch(executionResult) == executionResult.success

\* Failure(reason): dispatchActionAsynchronously returns { success: false, error }
DispatchFailure(error) == [state |-> "returned", success |-> FALSE, error |-> error]

DispatchSuccess == [state |-> "returned", success |-> TRUE, error |-> <<>>]

\* c.json({ status: 'completed_and_dispatched', ..., result }, 202)
CompletedResponse(r, result) ==
    IF JsonKeeps(result)
    THEN [code |-> 202, status |-> "completed_and_dispatched", flowId |-> FlowId(r),
          message |-> <<"Script", "executed", "successfully.", "Action",
                        "dispatched", "to", "task", "queue.">>,
          result |-> JsonValue(result)]
    ELSE [code |-> 202, status |-> "completed_and_dispatched", flowId |-> FlowId(r),
          message |-> <<"Script", "executed", "successfully.", "Action",
                        "dispatched", "to", "task", "queue.">>]

\* A handler that answers a failed dispatch like an accepted one
DispatchFailedAsSuccess(r, error) ==
    Respond(r,
        [flowId |-> FlowId(r), userId |-> UserId(r), flowName |-> flow[r][1].flowName,
         status |-> "SUCCESS", payload |-> Payload(r), result |-> ResultOf(outcomes[r][1]),
         actionStatus |-> 202],
        CompletedResponse(r, ResultOf(outcomes[r][1])))

\* `if (!dispatchStatus.success)`: the audit record and the answer of a
\* failed dispatch
DispatchFailed(r, error) ==
    Respond(r,
        [flowId |-> FlowId(r), userId |-> UserId(r), flowName |-> flow[r][1].flowName,
         status |-> "ACTION_FAIL", payload |-> Payload(r), result |-> ResultOf(outcomes[r][1]),
         error |-> <<"Action", "Dispatch", "Error:">> \o error, actionStatus |-> 500],
        [code |-> 500, status |-> "dispatch_failed", flowId |-> FlowId(r),
         message |-> <<"Failed", "to", "queue", "action:">> \o error])

\* The audit record and the answer of an accepted dispatch; c.json throws on
\* a result it cannot serialise, after the record was written
DispatchAccepted(r) ==
    IF JsonThrows(ResultOf(outcomes[r][1]))
    THEN /\ audit' = [audit EXCEPT ![r] = Append(@,
                [flowId |-> FlowId(r), userId |-> UserId(r),
                 flowName |-> flow[r][1].flowName, status |-> "SUCCESS",
                 payload |-> Payload(r), result |-> ResultOf(outcomes[r][1]),
                 actionStatus |-> 202])]
         /\ response' = [response EXCEPT ![r] =
                Append(@, [code |-> 500, text |-> "Internal Server Error"])]
         /\ hpc' = [hpc EXCEPT ![r] = "crashed"]
    ELSE Respond(r,
            [flowId |-> FlowId(r), userId |-> UserId(r),
             flowName |-> flow[r][1].flowName, status |-> "SUCCESS",
             payload |-> Payload(r), result |-> ResultOf(outcomes[r][1]),
             actionStatus |-> 202],
            CompletedResponse(r, ResultOf(outcomes[r][1])))

\* dispatchActionAsynchronously returns `status`; the handler goes on
DispatchReturns(r, status) ==
    /\ dispatchStatus' = [dispatchStatus EXCEPT ![r] = status]
    /\ IF status.success THEN DispatchAccepted(r) ELSE DispatchFailed(r, status.error)

\* An exception leaves dispatchActionAsynchronously, and the handler with it
DispatchThrows(r) ==
    /\ dispatchStatus' = [dispatchStatus EXCEPT ![r] =
                            [state |-> "threw", success |-> FALSE, error |-> <<>>]]
    /\ Crash(r)

\* dispatchActionAsynchronously waits at an await
DispatchAwaits(r, at) ==
    /\ dispatchStatus' = [dispatchStatus EXCEPT ![r] =
                            [state |-> "pending", success |-> FALSE, error |-> <<>>]]
    /\ hpc' = [hpc EXCEPT ![r] = at]
    /\ UNCHANGED <<audit, response>>

\* action.ts from the task payload on: build the task (JSON.stringify is
\* outside every try) and call createTask
BuildTask(r) ==
    IF TaskBody(flow[r][1], ResultOf(outcomes[r][1])).ok
    THEN DispatchAwaits(r, "createTask")
    ELSE DispatchThrows(r)

\* dispatchActionAsynchronously of action.ts, up to its first await
DispatchCloudTasks(r) ==
    /\ UNCHANGED <<taskClient, actionQueue, constructions, queue>>
    /\ IF ~tasksEnv
       THEN DispatchReturns(r, DispatchFailure(
                <<"Cloud", "Tasks", "configuration", "is", "missing.">>))
       ELSE IF taskClient = "null"
       THEN DispatchAwaits(r, "importTasks")
       ELSE BuildTask(r)

\* dispatchActionAsynchronously of the BullMQ build, up to `await queue.add`:
\* initializeQueue reuses actionQueue or constructs it
DispatchBullMq(r, constructed) ==
    /\ UNCHANGED <<taskClient, queue>>
    /\ constructions' = IF actionQueue = "null" /\ tasksEnv /\ constructed
                        THEN constructions + 1 ELSE constructions
    /\ IF actionQueue # "null"
       THEN /\ DispatchAwaits(r, "queueAdd")
            /\ actionQueue' = actionQueue
       ELSE IF ~tasksEnv
       THEN /\ DispatchReturns(r, DispatchFailure(
                    <<"Failed", "to", "queue", "task", "with", "BullMQ:",
                      "REDIS_CONNECTION_URL", "is", "not", "defined.", "Cannot",
                      "initialize", "BullMQ", "queue.">>))
            /\ actionQueue' = actionQueue
       ELSE IF ~constructed
       THEN /\ DispatchReturns(r, DispatchFailure(
                    <<"Failed", "to", "queue", "task", "with", "BullMQ:", "connection",
                      "error">>))
            /\ actionQueue' = actionQueue
       ELSE /\ DispatchAwaits(r, "queueAdd")
            /\ actionQueue' = "queue"

\* executeUserScript has ended: dispatch a success, record a failure
ExecutionDone(r, constructed) ==
    /\ hpc[r] = "exec"
    /\ thread = NoRun
    /\ phase[r] \in {"returned", "rejected"}
    /\ IF phase[r] = "rejected"
       THEN Crash(r) /\ UNCHANGED <<invoked, dispatchVars>>
       ELSE IF ShouldDispatch(outcomes[r][1])
       THEN /\ Count(r, "dispatchActionAsynchronously")
            /\ IF backend = "cloudTasks"
               THEN DispatchCloudTasks(r)
               ELSE DispatchBullMq(r, constructed)
       ELSE /\ Respond(r,
                  [flowId |-> FlowId(r), userId |-> UserId(r),
                   flowName |-> flow[r][1].flowName,
                   status |-> IF Includes(ToLowerCase(outcomes[r][1].error), <<"timeout">>)
                              THEN "TIMEOUT" ELSE "FAIL",
                   payload |-> Payload(r), error |-> outcomes[r][1].error],
                  [code |-> 500, status |-> "failed", flowId |-> FlowId(r),
                   message |-> <<"Execution", "Error:">> \o outcomes[r][1].error])
            /\ UNCHANGED <<invoked, dispatchVars>>
    /\ UNCHANGED <<envVars, opsVars, request, flow, tasks, rejections, secretsOutcome>>
    /\ UNCHANGED engineVars

\* `await import('@google-cloud/tasks')` and `new CloudTasksClient()` end
TasksImported(r, ok) ==
    /\ hpc[r] = "importTasks"
    /\ thread = NoRun
    /\ IF ok
       THEN /\ taskClient' = "client"
            /\ constructions' = constructions + 1
            /\ BuildTask(r)
       ELSE /\ UNCHANGED <<taskClient, constructions>>
            /\ DispatchReturns(r, DispatchFailure(
                    <<"Failed", "to", "dynamically", "initialize", "Cloud",
                      "Tasks", "client:", "Error">>))
    /\ UNCHANGED <<envVars, opsVars, actionQueue, queue, request, flow, tasks, rejections,
                   secretsOutcome, invoked>>
    /\ UNCHANGED engineVars

\* createTask answers: Cloud Tasks took the task, or refused it
TaskCreated(r, accepted) ==
    /\ hpc[r] = "createTask"
    /\ thread = NoRun
    /\ IF accepted
       THEN /\ queue' = Append(queue, Job(TaskBody(flow[r][1], ResultOf(outcomes[r][1])).body,
                                          NoJobOptions))
            /\ DispatchReturns(r, DispatchSuccess)
       ELSE /\ queue' = queue
            /\ DispatchReturns(r, DispatchFailure(
                    <<"Failed", "to", "queue", "task:", "unavailable">>))
    /\ UNCHANGED <<envVars, opsVars, taskClient, actionQueue, constructions, request, flow, tasks, rejections,
                   secretsOutcome, invoked>>
    /\ UNCHANGED engineVars

\* queue.add answers: BullMQ serialised and stored the job, or failed; every
\* failure is caught by the try around it
JobAdded(r, accepted) ==
    /\ hpc[r] = "queueAdd"
    /\ thread = NoRun
    /\ IF ~TaskBody(flow[r][1], ResultOf(outcomes[r][1])).ok
       THEN /\ queue' = queue
            /\ DispatchReturns(r, DispatchFailure(
                    <<"Failed", "to", "queue", "task", "with", "BullMQ:", "Converting",
                      "circular", "structure", "to", "JSON">>))
       ELSE IF accepted
       THEN /\ queue' = Append(queue, Job(TaskBody(flow[r][1], ResultOf(outcomes[r][1])).body,
                                          BullMqJobOptions))
            /\ DispatchReturns(r, DispatchSuccess)
       ELSE /\ queue' = queue
            /\ DispatchReturns(r, DispatchFailure(
                    <<"Failed", "to", "queue", "task", "with", "BullMQ:", "BullMQ",
                      "add", "failed">>))
    /\ UNCHANGED <<envVars, opsVars, taskClient, actionQueue, constructions, request, flow, tasks, rejections,
                   secretsOutcome, invoked>>
    /\ UNCHANGED engineVars

-----------------------------------------------------------------------------
(* Direct delivery: sendActionWebhook (unnamed/part_004 12-63) *)

\* JSON.stringify({ flowId, status: 'completed', result, timestamp })
WebhookBody(flowDoc, result, timestamp) ==
    IF JsonThrows(result)
    THEN [ok |-> FALSE]
    ELSE IF ~JsonKeeps(result)
    THEN [ok |-> TRUE,
          body |-> [flowId |-> flowDoc.flowId, status |-> "completed",
                    timestamp |-> timestamp]]
    ELSE [ok |-> TRUE,
          body |-> [flowId |-> flowDoc.flowId, status |-> "completed",
                    result |-> JsonValue(result), timestamp |-> timestamp]]

\* What the helper is called with: a flow with and without actionUrl, and
\* the values a script can have returned
HelperFlows ==
    {FlowStore["f-ok"], [FlowStore["f-ok"] EXCEPT !.actionUrl = ""]}
HelperResults == {Num(11), Undefined, NaN, FunctionValue, CyclicObject}

\* The statuses the target answers with
TargetStatuses == {200, 204, 404, 500}

\* response.ok
ResponseOk(status) == status \in 200..299

NetworkError == [name |-> "TypeError", message |-> <<"fetch", "failed">>]
TimeoutError ==
    [name |-> "TimeoutError",
     message |-> <<"The", "operation", "was", "aborted", "due", "to", "timeout">>]
StringifyError ==
    [name |-> "TypeError",
     message |-> <<"Converting", "circular", "structure", "to", "JSON">>]

NotCalled ==
    [state |-> "idle", call |-> <<>>, posted |-> <<>>, at |-> 0, reply |-> <<>>,
     outcome |-> <<>>]

\* The call returns `value`
WebhookReturns(c, value) ==
    sends' = [sends EXCEPT ![c].state = "returned", ![c].outcome = <<value>>]

\* A helper without the catch: the exception leaves it
Rethrows(error) == [threw |-> TRUE, error |-> error.message]

\* catch (error): the limit has its own message, anything else its message
WebhookCatch(error) ==
    [success |-> FALSE,
     error |-> IF error.name = "TimeoutError"
               THEN <<"Action", "Webhook", "Timed", "Out", "(10s", "limit).">>
               ELSE error.message]

\* sendActionWebhook(flow, result) up to `await fetch`
Send(c, flowDoc, result) ==
    /\ sends[c].state = "idle"
    /\ thread = NoRun
    /\ LET called == [sends[c] EXCEPT !.call = <<[flow |-> flowDoc, result |-> result]>>,
                                      !.at = now]
           json == WebhookBody(flowDoc, result, now)
       IN IF flowDoc.actionUrl = ""
          THEN sends' = [sends EXCEPT ![c] =
                    [called EXCEPT !.state = "returned",
                                   !.outcome = <<[success |-> TRUE, status |-> 204]>>]]
          ELSE IF ~json.ok
          THEN sends' = [sends EXCEPT ![c] =
                    [called EXCEPT !.state = "returned",
                                   !.reply = <<[kind |-> "stringify"]>>,
                                   !.outcome = <<WebhookCatch(StringifyError)>>]]
          ELSE sends' = [sends EXCEPT ![c] =
                    [called EXCEPT !.state = "fetching",
                                   !.posted = <<[url |-> flowDoc.actionUrl,
                                                 body |-> json.body]>>]]
    /\ UNCHANGED <<envVars, failureChannel, auditSink, dispatchVars, hpc, request, flow,
                   tasks, rejections, secretsOutcome, audit, response, invoked>>
    /\ UNCHANGED engineVars

\* The request limit of AbortSignal.timeout(10000) has passed
LimitPassed(c) == now >= sends[c].at + RequestLimitMs

\* The target answers the POST before the limit
TargetAnswers(c, status) ==
    /\ sends[c].state = "fetching"
    /\ thread = NoRun
    /\ ~LimitPassed(c)
    /\ IF ResponseOk(status)
       THEN sends' = [sends EXCEPT
                ![c].state = "returned",
                ![c].reply = <<[kind |-> "response", status |-> status]>>,
                ![c].outcome = <<[success |-> TRUE, status |-> status]>>]
       ELSE sends' = [sends EXCEPT
                ![c].state = "reading",
                ![c].reply = <<[kind |-> "response", status |-> status]>>]
    /\ UNCHANGED <<envVars, failureChannel, auditSink, dispatchVars, hpc, request, flow,
                   tasks, rejections, secretsOutcome, audit, response, invoked>>
    /\ UNCHANGED engineVars

\* `await response.text()` of a non-ok answer ends: the text, or an error
BodyRead(c, ok) ==
    /\ sends[c].state = "reading"
    /\ thread = NoRun
    /\ ~LimitPassed(c)
    /\ IF ok
       THEN WebhookReturns(c,
                [success |-> FALSE, status |-> sends[c].reply[1].status,
                 error |-> <<"Remote", "server", "returned", "status",
                             ToString(sends[c].reply[1].status)>>])
       ELSE sends' = [sends EXCEPT
                ![c].state = "returned",
                ![c].reply = <<[kind |-> "bodyError", status |-> sends[c].reply[1].status]>>,
                ![c].outcome = <<WebhookCatch(NetworkError)>>]
    /\ UNCHANGED <<envVars, failureChannel, auditSink, dispatchVars, hpc, request, flow,
                   tasks, rejections, secretsOutcome, audit, response, invoked>>
    /\ UNCHANGED engineVars

\* fetch rejects: DNS, connection refused, connection reset
FetchFails(c) ==
    /\ sends[c].state = "fetching"
    /\ thread = NoRun
    /\ ~LimitPassed(c)
    /\ sends' = [sends EXCEPT
            ![c].state = "returned",
            ![c].reply = <<[kind |-> "networkError"]>>,
            ![c].outcome = <<WebhookCatch(NetworkError)>>]
    /\ UNCHANGED <<envVars, failureChannel, auditSink, dispatchVars, hpc, request, flow,
                   tasks, rejections, secretsOutcome, audit, response, invoked>>
    /\ UNCHANGED engineVars

\* The signal aborts the request, or the reading of its answer
LimitFires(c) ==
    /\ sends[c].state \in {"fetching", "reading"}
    /\ thread = NoRun
    /\ LimitPassed(c)
    /\ sends' = [sends EXCEPT
            ![c].state = "returned",
            ![c].reply = <<[kind |-> "limit"]>>,
            ![c].outcome = <<WebhookCatch(TimeoutError)>>]
    /\ UNCHANGED <<envVars, failureChannel, auditSink, dispatchVars, hpc, request, flow,
                   tasks, rejections, secretsOutcome, audit, response, invoked>>
    /\ UNCHANGED engineVars

-----------------------------------------------------------------------------
(* Audit sink: logExecution (src/db.ts 127-142) *)

\* How a call of logExecution ends: it throws when the database was never
\* initialised; a write the store rejects is caught and logged as critical
logExecution(database, writeOk) ==
    IF database = "undefined"
    THEN [ended |-> "threw", stored |-> FALSE,
          error |-> <<"Database", "not", "initialized.">>]
    ELSE IF writeOk
    THEN [ended |-> "returned", stored |-> TRUE, error |-> <<>>]
    ELSE [ended |-> "returned", stored |-> FALSE, error |-> <<>>]

\* The logger hands an audit record of request r to logExecution, the sink
\* registered with initializeDatabaseLogging; the handler does not wait for it
LogWrite(r, writeOk) ==
    /\ Len(auditSink[r]) < Len(audit[r])
    /\ auditSink' = [auditSink EXCEPT ![r] = Append(@, logExecution(db, writeOk))]
    /\ failureChannel' = failureChannel
    /\ sends' = sends
    /\ UNCHANGED <<envVars, dispatchVars, hpc, request, flow, tasks, rejections,
                   secretsOutcome, audit, response, invoked>>
    /\ UNCHANGED engineVars

-----------------------------------------------------------------------------
(* Delivery of the accepted jobs by the queue backend, as the options the   *)
(* job was enqueued with direct it                                          *)

\* A backend that retries at once
NoBackoff(job, made) == 0

\* backoff: { type: 'exponential', delay }: delay * 2^(attemptsMade - 1); a
\* job enqueued without options waits as long as the queue pleases
Backoff(job, made) ==
    IF job.opts # <<>> THEN job.opts[1].backoff.delay * 2^(made - 1) ELSE 0

\* attempts: n: a failed job is retried until it was attempted n times; a
\* job enqueued without options is retried as the queue pleases
RetriesLeft(job, made, again) ==
    IF job.opts # <<>> THEN made < job.opts[1].attempts ELSE again /\ made < MaxDeliveries

\* One delivery attempt of job i to the action target
Deliver(i, delivered, again) ==
    /\ i \in 1..Len(queue)
    /\ queue[i].state \in {"waiting", "delayed"}
    /\ now >= queue[i].retryAt
    /\ LET job == queue[i]
           made == job.attemptsMade + 1
       IN queue' = [queue EXCEPT ![i] =
              IF delivered
              THEN [job EXCEPT !.attemptsMade = made, !.state = "completed"]
              ELSE IF RetriesLeft(job, made, again)
              THEN [job EXCEPT !.attemptsMade = made, !.state = "delayed",
                               !.failedAt = now, !.retryAt = now + Backoff(job, made)]
              ELSE [job EXCEPT !.attemptsMade = made, !.state = "failed",
                               !.failedAt = now]]
    \* nothing in the repository listens for a job that ran out of attempts
    /\ failureChannel' = failureChannel
    /\ auditSink' = auditSink
    /\ sends' = sends
    /\ UNCHANGED <<envVars, taskClient, actionQueue, constructions, dispatchStatus, hpc, request, flow,
                   tasks, rejections, secretsOutcome, audit, response, invoked>>
    /\ UNCHANGED engineVars

-----------------------------------------------------------------------------
(* Initial states and specifications *)

EngineInit ==
    /\ userModules = EmptyObject
    /\ heap = [o \in HeapObjects |-> "pristine"]
    /\ pending = [r \in Runs |-> [state |-> "none", at |-> 0, afterReturn |-> FALSE]]
    /\ logs = <<>>
    /\ phase = [r \in Runs |-> "idle"]
    /\ args = [r \in Runs |-> NoArgs]
    /\ ip = [r \in Runs |-> 1]
    /\ wake = [r \in Runs |-> [timer |-> FALSE, at |-> 0]]
    /\ started = [r \in Runs |-> 0]
    /\ outcomes = [r \in Runs |-> <<>>]
    /\ resolved = [r \in Runs |-> <<>>]
    /\ scriptEnd = [r \in Runs |-> [how |-> "none", value |-> Undefined, at |-> 0]]
    /\ thread = NoRun
    /\ now = 0

NoRequest == [flowId |-> "", body |-> [json |-> TRUE, payload |-> EmptyObject]]

HandlersIdle ==
    /\ taskClient = "null"
    /\ actionQueue = "null"
    /\ constructions = 0
    /\ queue = <<>>
    /\ failureChannel = {}
    /\ auditSink = [r \in Runs |-> <<>>]
    /\ sends = [c \in Runs |-> NotCalled]
    /\ dispatchStatus = [r \in Runs |-> [state |-> "none", success |-> FALSE, error |-> <<>>]]
    /\ hpc = [r \in Runs |-> "idle"]
    /\ request = [r \in Runs |-> NoRequest]
    /\ flow = [r \in Runs |-> <<>>]
    /\ tasks = [r \in Runs |-> <<>>]
    /\ rejections = [r \in Runs |-> <<>>]
    /\ secretsOutcome = [r \in Runs |-> [status |-> "none"]]
    /\ audit = [r \in Runs |-> <<>>]
    /\ response = [r \in Runs |-> <<>>]
    /\ invoked = [r \in Runs |->
          [c \in {"getFlowDocument", "resolveUserSecrets", "executeUserScript",
                  "dispatchActionAsynchronously"} |-> 0]]

\* The engine called directly, by two concurrent callers
Init ==
    /\ EngineInit
    /\ HandlersIdle
    /\ db = "firestore"
    /\ tasksEnv = TRUE
    /\ backend = "cloudTasks"

Next ==
    \/ \E r \in Runs : DirectCall(r)
    \/ \E r \in Runs : ScriptRequire(r)
    \/ \E r \in Runs : ScriptAwait(r)
    \/ \E r \in Runs : TimerFires(r)
    \/ \E r \in Runs : ScriptReturn(r)
    \/ \E r \in Runs : ScriptEnds(r)
    \/ \E r \in Runs : ScriptThrow(r)
    \/ \E r \in Runs : ScriptRef(r)
    \/ \E r \in Runs : ScriptAssign(r)
    \/ \E r \in Runs : ScriptSchedule(r)
    \/ \E r \in Runs : ScriptConsole(r)
    \/ \E r \in Runs : CallbackFires(r)
    \/ \E r \in Runs : VmTimeout(r)
    \/ Tick

Spec == Init /\ [][Next]_vars

\* The server: Firestore initialised or not, Cloud Tasks configured or not
InitWebhook ==
    /\ EngineInit
    /\ HandlersIdle
    /\ db \in {"firestore", "undefined"}
    /\ tasksEnv \in BOOLEAN
    /\ backend \in {"cloudTasks", "bullmq"}

NextWebhook ==
    \/ \E r \in Runs : \E flowId \in RequestFlowIds : \E body \in RequestBodies :
          Receive(r, flowId, body)
    \/ \E r \in Runs : \E readOk \in BOOLEAN : FlowLoaded(r, readOk)
    \/ \E r \in Runs : \E k \in DOMAIN tasks[r] : \E reply \in GsmReplies :
          GsmAnswers(r, k, reply)
    \/ \E r \in Runs : SecretsSettled(r)
    \/ \E r \in Runs : ScriptRequire(r)
    \/ \E r \in Runs : ScriptAwait(r)
    \/ \E r \in Runs : TimerFires(r)
    \/ \E r \in Runs : ScriptReturn(r)
    \/ \E r \in Runs : ScriptEnds(r)
    \/ \E r \in Runs : ScriptThrow(r)
    \/ \E r \in Runs : VmTimeout(r)
    \/ Tick
    \/ \E r \in Runs : \E constructed \in BOOLEAN : ExecutionDone(r, constructed)
    \/ \E r \in Runs : \E ok \in BOOLEAN : TasksImported(r, ok)
    \/ \E r \in Runs : \E accepted \in BOOLEAN : TaskCreated(r, accepted)
    \/ \E r \in Runs : \E accepted \in BOOLEAN : JobAdded(r, accepted)

SpecWebhook == InitWebhook /\ [][NextWebhook]_vars

\* The requests whose jobs the delivery is followed for
DeliveryFlowIds == {"f-ok"}

\* The server with its queue backend at work: requests that reach the
\* dispatch, and the delivery of their jobs
InitDelivery ==
    /\ EngineInit
    /\ HandlersIdle
    /\ db = "firestore"
    /\ tasksEnv = TRUE
    /\ backend \in {"cloudTasks", "bullmq"}

NextDelivery ==
    \/ \E r \in Runs : \E flowId \in DeliveryFlowIds :
          Receive(r, flowId, [json |-> TRUE, payload |-> ValueTen])
    \/ \E r \in Runs : FlowLoaded(r, TRUE)
    \/ \E r \in Runs : \E k \in DOMAIN tasks[r] : GsmAnswers(r, k, "data")
    \/ \E r \in Runs : SecretsSettled(r)
    \/ \E r \in Runs : ScriptReturn(r)
    \/ \E r \in Runs : ExecutionDone(r, TRUE)
    \/ \E r \in Runs : TasksImported(r, TRUE)
    \/ \E r \in Runs : \E accepted \in BOOLEAN : TaskCreated(r, accepted)
    \/ \E r \in Runs : \E accepted \in BOOLEAN : JobAdded(r, accepted)
    \/ \E i \in 1..Len(queue) : \E delivered, again \in BOOLEAN :
          Deliver(i, delivered, again)
    \/ Tick

SpecDelivery == InitDelivery /\ [][NextDelivery]_vars

\* The requests whose audit records are followed into the sink
AuditFlowIds == {"f-ok", "f-off"}

\* The server with its audit sink at work
InitAudit ==
    /\ EngineInit
    /\ HandlersIdle
    /\ db \in {"firestore", "undefined"}
    /\ tasksEnv = TRUE
    /\ backend = "cloudTasks"

NextAudit ==
    \/ \E r \in Runs : \E flowId \in AuditFlowIds : \E body \in RequestBodies :
          Receive(r, flowId, body)
    \/ \E r \in Runs : \E readOk \in BOOLEAN : FlowLoaded(r, readOk)
    \/ \E r \in Runs : \E k \in DOMAIN tasks[r] : GsmAnswers(r, k, "data")
    \/ \E r \in Runs : SecretsSettled(r)
    \/ \E r \in Runs : ScriptReturn(r)
    \/ \E r \in Runs : ExecutionDone(r, TRUE)
    \/ \E r \in Runs : TasksImported(r, TRUE)
    \/ \E r \in Runs : \E accepted \in BOOLEAN : TaskCreated(r, accepted)
    \/ \E r \in Runs : \E writeOk \in BOOLEAN : LogWrite(r, writeOk)

SpecAudit == InitAudit /\ [][NextAudit]_vars

\* The direct delivery helper, called by two concurrent callers
NextDirectDelivery ==
    \/ \E c \in Runs : \E flowDoc \in HelperFlows : \E result \in HelperResults :
          Send(c, flowDoc, result)
    \/ \E c \in Runs : \E status \in TargetStatuses : TargetAnswers(c, status)
    \/ \E c \in Runs : \E ok \in BOOLEAN : BodyRead(c, ok)
    \/ \E c \in Runs : FetchFails(c)
    \/ \E c \in Runs : LimitFires(c)
    \/ Tick

SpecDirectDelivery == Init /\ [][NextDirectDelivery]_vars

-----------------------------------------------------------------------------
(* Claims about the engine and the gatekeeper, checked under Spec *)

Elapsed(r) == now - started[r]
Over(r) == phase[r] \in {"returned", "rejected"}

WellFormedResult(res) ==
    \/ res.success /\ DOMAIN res = {"success", "result"}
    \/ ~res.success /\ DOMAIN res = {"success", "error"}

\* C1: with two concurrent runs, every require() of a run gives what the
\* approved set and that run's own injected map give: never a module only the
\* other run injected, never a denial of a module the run injected itself.
C1_ResolutionIsRunScoped ==
    \A r \in Runs : \A i \in 1..Len(resolved[r]) :
        resolved[r][i].result = ResolveAgainst(resolved[r][i].name, args[r].modules)

\* C2: an approved name always resolves to the approved implementation, in
\* every state of the injected map and for every require() made, also when
\* the run injected another module under that name.
C2_ApprovedSetTakesPrecedence ==
    /\ \A m \in DOMAIN communityModules :
          safeModuleResolver(m) = Found(communityModules[m])
    /\ \A r \in Runs : \A i \in 1..Len(resolved[r]) :
          resolved[r][i].name \in DOMAIN communityModules
              => resolved[r][i].result = Found(communityModules[resolved[r][i].name])

C2_Witness ==
    \E r \in Runs : \E i \in 1..Len(resolved[r]) :
        /\ resolved[r][i].name = "lodash"
        /\ "lodash" \in DOMAIN resolved[r][i].injected
        /\ resolved[r][i].injected["lodash"] # communityModules["lodash"]
        /\ resolved[r][i].result = Found("lodash@host")
        /\ userModules = FakeLodash

\* C3: a require() of a name that is a key of neither the approved set nor
\* the injected map in force is denied with the error naming it, and the run
\* ends as the failure carrying that message.
C3_ResolutionFailsClosed ==
    \A r \in Runs : \A i \in 1..Len(resolved[r]) :
        LET e == resolved[r][i] IN
        (e.name \notin DOMAIN communityModules /\ e.name \notin DOMAIN e.injected)
            => /\ ~e.result.ok
               /\ Includes(e.result.error, <<e.name>>)
               /\ phase[r] = "returned"
               /\ outcomes[r] = <<ExecutionFailure(DeniedMessage(e.name))>>

\* C4: a call never ends by throwing (a rejected promise); an ended call has
\* produced exactly one result, of one of the two shapes, and a call that has
\* not ended has produced none.
C4_ExactlyOneResultNeverThrows ==
    \A r \in Runs :
        /\ phase[r] # "rejected"
        /\ phase[r] = "returned"
              => Len(outcomes[r]) = 1 /\ WellFormedResult(outcomes[r][1])
        /\ phase[r] # "returned" => outcomes[r] = <<>>

\* C5: every call has returned once the deadline, measured from its start,
\* has passed (by at most one clock step), whatever its script awaits.
C5_ReturnsByDeadline ==
    \A r \in Runs :
        (phase[r] # "idle" /\ Elapsed(r) >= VmTimeoutMs + ClockStep) => Over(r)

NeverYields(r) == Len(Body(r)) >= 1 /\ Body(r)[1].op = "loop"

\* C6: a script that loops without ever yielding is running for less than
\* the deadline plus one clock step, and its call returns the failure whose
\* message contains 'Script execution timed out'.
C6_BusyLoopIsTimedOut ==
    \A r \in Runs :
        (phase[r] # "idle" /\ NeverYields(r)) =>
            /\ phase[r] \in {"vmrun", "returned"}
            /\ phase[r] = "vmrun" => Elapsed(r) < VmTimeoutMs + ClockStep
            /\ phase[r] = "returned" =>
                  /\ Len(outcomes[r]) = 1
                  /\ ~outcomes[r][1].success
                  /\ Includes(outcomes[r][1].error, <<"Script", "execution", "timed", "out">>)
                  /\ Elapsed(r) >= VmTimeoutMs

C6_Witness ==
    \E r \in Runs :
        /\ args[r].userCode = BusyLoop
        /\ phase[r] = "returned"
        /\ outcomes[r] = <<ExecutionFailure(TimeoutMessage)>>

\* C7: a script that returns a JSON-serializable value v within the deadline
\* makes its call return {success: true, result: v}; 'return payload.value + 1'
\* on {value: 10} gives 11.
C7_ReturnedValueIsTheResult ==
    \A r \in Runs :
        /\ ( /\ scriptEnd[r].how = "return"
             /\ JsonSerializable(scriptEnd[r].value)
             /\ scriptEnd[r].at - started[r] < VmTimeoutMs )
           => /\ phase[r] = "returned"
              /\ outcomes[r] = <<[success |-> TRUE, result |-> scriptEnd[r].value]>>
        /\ (args[r].userCode = AddOne /\ args[r].payload = ValueTen /\ Over(r))
           => outcomes[r] = <<[success |-> TRUE, result |-> Num(11)]>>

C7_Witness ==
    \E r \in Runs :
        /\ args[r].userCode = AddOne
        /\ args[r].payload = ValueTen
        /\ scriptEnd[r].how = "return"
        /\ outcomes[r] = <<[success |-> TRUE, result |-> Num(11)]>>

\* C8: no call returns {success: true} carrying a result that is not
\* JSON-serializable.
C8_SuccessIsSerializable ==
    \A r \in Runs : \A i \in 1..Len(outcomes[r]) :
        outcomes[r][i].success => JsonSerializable(outcomes[r][i].result)

AnyResolutionFailed(r) == \E k \in DOMAIN tasks[r] : tasks[r][k].state = "rejected"

\* C9: once the resolution of one reference of a request's secret map has
\* failed, resolveUserSecrets can only reject: it never fulfils, it hands out
\* no map (not even of the entries that resolved or were literals), and this
\* in whatever order the lookups complete.
C9_SecretsAllOrNothing ==
    \A r \in Runs :
        AnyResolutionFailed(r) =>
            /\ PromiseAll(tasks[r], rejections[r]).status = "rejected"
            /\ "map" \notin DOMAIN PromiseAll(tasks[r], rejections[r])
            /\ secretsOutcome[r].status \in {"none", "rejected"}
            /\ "map" \notin DOMAIN secretsOutcome[r]
            /\ hpc[r] # "secrets" => secretsOutcome[r].status = "rejected"
            /\ args[r] = NoArgs

C9_Witness ==
    \E r \in Runs :
        /\ request[r].flowId = "f-two"
        /\ DOMAIN tasks[r] = {"A", "B", "C"}
        /\ tasks[r]["A"].state = "fulfilled"
        /\ tasks[r]["A"].value = GsmData(RefApiKey)
        /\ tasks[r]["B"].state = "rejected"
        /\ tasks[r]["C"].state = "fulfilled"
        /\ secretsOutcome[r] =
              [status |-> "rejected",
               error |-> <<"Failed", "to", "resolve", "secret">> \o RefDbPass]

\* C10: a request whose secret resolution failed never reaches
\* executeUserScript or dispatchActionAsynchronously; it leaves one audit
\* record, of status FAIL with an error containing 'Secret resolution failed',
\* and is answered 500 with status 'failed'.
C10_SecretFailureStopsTheRequest ==
    \A r \in Runs :
        secretsOutcome[r].status = "rejected" =>
            /\ hpc[r] = "done"
            /\ invoked[r]["executeUserScript"] = 0
            /\ invoked[r]["dispatchActionAsynchronously"] = 0
            /\ phase[r] = "idle"
            /\ Len(audit[r]) = 1
            /\ audit[r][1].status = "FAIL"
            /\ Includes(audit[r][1].error, <<"Secret", "resolution", "failed:">>)
            /\ Len(response[r]) = 1
            /\ response[r][1].code = 500
            /\ response[r][1].status = "failed"

C10_Witness ==
    \E r \in Runs :
        /\ request[r].flowId = "f-ok"
        /\ DOMAIN tasks[r] = {"API_KEY", "REGION"}
        /\ tasks[r]["API_KEY"].state = "rejected"
        /\ secretsOutcome[r].status = "rejected"
        /\ hpc[r] = "done"
        /\ audit[r][1].status = "FAIL"
        /\ audit[r][1].error =
              <<"Secret", "resolution", "failed:", "Failed", "to", "resolve", "secret">>
                  \o RefApiKey
        /\ response[r][1].code = 500

\* C11: when getFlowDocument yields no usable flow (absent, inactive, read
\* failure) the request is answered 404 'rejected' and resolveUserSecrets,
\* executeUserScript and dispatchActionAsynchronously are not invoked for it;
\* executeUserScript is only ever invoked for a flow with isActive = true.
C11_OnlyActiveFlowsAreExecuted ==
    \A r \in Runs :
        /\ ( /\ db = "firestore"
             /\ request[r].body.json
             /\ hpc[r] \in {"done", "crashed"}
             /\ flow[r] = <<>> )
           => /\ Len(response[r]) = 1
              /\ response[r][1].code = 404
              /\ response[r][1].status = "rejected"
              /\ invoked[r]["resolveUserSecrets"] = 0
              /\ invoked[r]["executeUserScript"] = 0
              /\ invoked[r]["dispatchActionAsynchronously"] = 0
              /\ phase[r] = "idle"
        /\ (invoked[r]["executeUserScript"] > 0 \/ phase[r] # "idle")
           => /\ flow[r] # <<>>
              /\ flow[r][1].isActive
              /\ FlowId(r) \in DOMAIN FlowStore
              /\ FlowStore[FlowId(r)].isActive

C11_Witness ==
    \E r \in Runs :
        /\ FlowId(r) = "f-off"
        /\ ~FlowStore["f-off"].isActive
        /\ hpc[r] = "done"
        /\ response[r] # <<>>
        /\ response[r][1].code = 404
        /\ response[r][1].status = "rejected"
        /\ invoked[r] = [c \in DOMAIN invoked[r] |->
                            IF c = "getFlowDocument" THEN 1 ELSE 0]
        /\ \E q \in Runs : invoked[q]["executeUserScript"] = 1

HandlerSteps ==
    {<<"idle", "loadFlow">>, <<"idle", "done">>, <<"idle", "crashed">>,
     <<"loadFlow", "secrets">>, <<"loadFlow", "done">>,
     <<"secrets", "exec">>, <<"secrets", "done">>,
     <<"exec", "importTasks">>, <<"exec", "createTask">>, <<"exec", "queueAdd">>,
     <<"exec", "done">>, <<"exec", "crashed">>,
     <<"importTasks", "createTask">>, <<"importTasks", "done">>,
     <<"importTasks", "crashed">>,
     <<"createTask", "done">>, <<"queueAdd", "done">>}

EngineRunning(r) == phase[r] \notin {"idle", "returned", "rejected"}

StepsInOrder(r) ==
    /\ \A c \in DOMAIN invoked[r] : invoked[r][c] <= 1
    /\ invoked[r]["resolveUserSecrets"] = 1
          => invoked[r]["getFlowDocument"] = 1 /\ flow[r] # <<>> /\ flow[r][1].isActive
    /\ invoked[r]["executeUserScript"] = 1
          => /\ invoked[r]["resolveUserSecrets"] = 1
             /\ secretsOutcome[r].status = "fulfilled"
             /\ \A k \in DOMAIN tasks[r] : tasks[r][k].state = "fulfilled"
    /\ EngineRunning(r)
          => hpc[r] = "exec" /\ invoked[r]["dispatchActionAsynchronously"] = 0
    /\ invoked[r]["dispatchActionAsynchronously"] = 1
          => /\ invoked[r]["executeUserScript"] = 1
             /\ phase[r] = "returned"
             /\ outcomes[r][1].success
    /\ dispatchStatus[r].state # "none"
          => invoked[r]["dispatchActionAsynchronously"] = 1
    /\ \A i \in 1..Len(audit[r]) :
          audit[r][i].status \in {"SUCCESS", "ACTION_FAIL"}
              => dispatchStatus[r].state = "returned"
    /\ hpc[r] = "loadFlow" => invoked[r]["resolveUserSecrets"] = 0
    /\ hpc[r] = "secrets" => invoked[r]["executeUserScript"] = 0

\* C12: within a request the handler moves only forward through flow load,
\* secret resolution, execution and dispatch, or out to a terminal state; each
\* step starts once, after the step before it has completed with success, and
\* the audit record of a dispatched run is written after dispatch returned.
C12_StepsAreSequential ==
    /\ [](\A r \in Runs : StepsInOrder(r))
    /\ [][\A r \in Runs : hpc'[r] # hpc[r] => <<hpc[r], hpc'[r]>> \in HandlerSteps]_vars

C12_Witness ==
    \E r \in Runs :
        /\ hpc[r] = "done"
        /\ \A c \in DOMAIN invoked[r] : invoked[r][c] = 1
        /\ secretsOutcome[r].status = "fulfilled"
        /\ DOMAIN tasks[r] = {"API_KEY", "REGION"}
        /\ dispatchStatus[r] = DispatchSuccess
        /\ Len(audit[r]) = 1
        /\ audit[r][1].status = "SUCCESS"

Terminal(r) == hpc[r] \in {"done", "crashed"}

\* C13: a request that has reached a terminal state has left exactly one
\* audit record, on every path, also when getFlowDocument or the dispatch
\* raises instead of returning; no request ever leaves two.
C13_ExactlyOneAuditRecord ==
    \A r \in Runs :
        /\ Len(audit[r]) <= 1
        /\ Terminal(r) => Len(audit[r]) = 1

Accepted == {r \in Runs : dispatchStatus[r] = DispatchSuccess}

\* The script of r's request failed: the engine returned a failure, or threw
ExecutionFailed(r) ==
    \/ phase[r] = "rejected"
    \/ phase[r] = "returned" /\ ~outcomes[r][1].success

\* C14: dispatchActionAsynchronously is invoked once for a request whose
\* execution returned success and never for another; a request whose
\* execution failed enqueues no job and is answered 500 'failed' with the
\* engine's error message.
C14_DispatchIffExecutionSucceeded ==
    /\ Len(queue) = Cardinality(Accepted)
    /\ \A r \in Runs :
        /\ invoked[r]["dispatchActionAsynchronously"] <= 1
        /\ invoked[r]["dispatchActionAsynchronously"] = 1
              => phase[r] = "returned" /\ outcomes[r][1].success
        /\ (Terminal(r) /\ phase[r] = "returned" /\ outcomes[r][1].success)
              => invoked[r]["dispatchActionAsynchronously"] = 1
        /\ (Terminal(r) /\ ExecutionFailed(r))
              => /\ invoked[r]["dispatchActionAsynchronously"] = 0
                 /\ dispatchStatus[r].state = "none"
                 /\ Len(response[r]) = 1
                 /\ response[r][1].code = 500
                 /\ "status" \in DOMAIN response[r][1]
                 /\ response[r][1].status = "failed"
                 /\ phase[r] = "returned"
                 /\ response[r][1].message =
                        <<"Execution", "Error:">> \o outcomes[r][1].error

DispatchReportedFailure(r) ==
    dispatchStatus[r].state = "returned" /\ ~dispatchStatus[r].success

\* C15: when the script succeeded and dispatchActionAsynchronously returns
\* {success: false}, the request is answered 500 'dispatch_failed', never as a
\* success, and its one audit record has status ACTION_FAIL, actionStatus 500,
\* the script's result and an error containing the dispatch error.
C15_DispatchFailureIsNotSuccess ==
    \A r \in Runs :
        DispatchReportedFailure(r) =>
            /\ outcomes[r][1].success
            /\ hpc[r] = "done"
            /\ Len(response[r]) = 1
            /\ response[r][1].code = 500
            /\ response[r][1].status = "dispatch_failed"
            /\ Includes(response[r][1].message, dispatchStatus[r].error)
            /\ Len(audit[r]) = 1
            /\ audit[r][1].status = "ACTION_FAIL"
            /\ audit[r][1].actionStatus = 500
            /\ audit[r][1].result = outcomes[r][1].result
            /\ Includes(audit[r][1].error, dispatchStatus[r].error)

C15_Witness ==
    \E r \in Runs :
        /\ FlowId(r) = "f-ok"
        /\ outcomes[r] = <<ExecutionSuccess(Num(11))>>
        /\ dispatchStatus[r] =
              DispatchFailure(<<"Failed", "to", "queue", "task:", "unavailable">>)
        /\ audit[r] # <<>>
        /\ audit[r][1].status = "ACTION_FAIL"
        /\ audit[r][1].result = Num(11)
        /\ response[r] # <<>>
        /\ response[r][1].status = "dispatch_failed"
        /\ queue = <<>>

\* What a client reads as `result` in a response body
ResponseResult(resp) == IF "result" \in DOMAIN resp THEN resp.result ELSE Undefined

Answered202(r) == response[r] # <<>> /\ response[r][1].code = 202

AllStepsSucceeded(r) ==
    /\ flow[r] # <<>>
    /\ flow[r][1].isActive
    /\ secretsOutcome[r].status = "fulfilled"
    /\ phase[r] = "returned"
    /\ outcomes[r][1].success
    /\ dispatchStatus[r] = DispatchSuccess

\* C16: a request is answered 202 'completed_and_dispatched' exactly when its
\* flow was active, its secrets resolved, its script returned success and the
\* enqueue was accepted; the answer then carries the script's result unchanged
\* and the audit record is SUCCESS with actionStatus 202; no other answer
\* carries a result.
C16_Answer202IffAllSucceeded ==
    \A r \in Runs :
        /\ Len(response[r]) <= 1
        /\ Answered202(r) =>
              /\ AllStepsSucceeded(r)
              /\ response[r][1].status = "completed_and_dispatched"
              /\ ResponseResult(response[r][1]) = outcomes[r][1].result
              /\ Len(audit[r]) = 1
              /\ audit[r][1].status = "SUCCESS"
              /\ audit[r][1].actionStatus = 202
        /\ (Terminal(r) /\ AllStepsSucceeded(r)) => Answered202(r)
        /\ (response[r] # <<>> /\ "result" \in DOMAIN response[r][1]) => Answered202(r)

\* C17: dispatchActionAsynchronously never throws: every call that has ended
\* has returned a status, and a failed enqueue (configuration missing, client
\* not initialised, job refused, job not serialisable) is the value
\* {success: false, error: reason}, with no job in the queue for it.
C17_DispatchReportsFailuresAsValues ==
    /\ Len(queue) = Cardinality(Accepted)
    /\ \A r \in Runs :
        /\ dispatchStatus[r].state # "threw"
        /\ (invoked[r]["dispatchActionAsynchronously"] = 1 /\ Terminal(r))
              => dispatchStatus[r].state = "returned"
        /\ DispatchReportedFailure(r) => dispatchStatus[r].error # <<>>
        /\ (dispatchStatus[r].state = "returned"
              /\ (~tasksEnv \/ JsonThrows(ResultOf(outcomes[r][1]))))
              => DispatchReportedFailure(r)

\* The job the step has put on the queue has had no delivery attempt
EnqueuedUndelivered ==
    /\ Len(queue') = Len(queue) + 1
    /\ queue'[Len(queue')].attemptsMade = 0
    /\ queue'[Len(queue')].state = "waiting"

\* C18: dispatchActionAsynchronously returns {success: true} in the step in
\* which the queue accepts the job, before any delivery attempt, and the
\* handler answers 202 on it; nothing that happens later, a failing delivery
\* included, changes the returned dispatch status, the audit record or the
\* response.
C18_DispatchReturnsOnAcceptance ==
    [][/\ \A r \in Runs :
            /\ response[r] # <<>> => response'[r] = response[r]
            /\ audit[r] # <<>> => audit'[r] = audit[r]
            /\ dispatchStatus[r].state = "returned" => dispatchStatus'[r] = dispatchStatus[r]
            /\ (dispatchStatus[r] # DispatchSuccess /\ dispatchStatus'[r] = DispatchSuccess)
                  => /\ EnqueuedUndelivered
                     /\ response'[r] # <<>>
                     /\ response'[r][1].code = 202
       /\ Len(queue') # Len(queue)
            => \E r \in Runs : /\ dispatchStatus[r] # DispatchSuccess
                               /\ dispatchStatus'[r] = DispatchSuccess
      ]_vars

\* A request answered 202 whose only job was then attempted and failed for good
C18_Witness ==
    /\ Len(queue) = 1
    /\ queue[1].state = "failed"
    /\ queue[1].attemptsMade >= 1
    /\ \E r \in Runs : Answered202(r) /\ dispatchStatus[r] = DispatchSuccess

\* Job i is attempted in this step
Attempted(i) == queue'[i].attemptsMade = queue[i].attemptsMade + 1

Quiescent ==
    /\ \A r \in Runs : Terminal(r)
    /\ \A i \in 1..Len(queue) : queue[i].state \in {"completed", "failed"}

C21_AuditFailureNeverReachesTheCaller ==
    /\ [](\A r \in Runs : \A i \in 1..Len(auditSink[r]) :
              auditSink[r][i].ended = "returned")
    /\ [][auditSink' # auditSink => response' = response]_vars

\* Run r1 had ended before run r2 started
EndedBefore(r1, r2) ==
    /\ r1 # r2
    /\ Over(r1)
    /\ phase[r2] # "idle"
    /\ scriptEnd[r1].at < started[r2]

\* C22: a run that starts after another run has ended resolves a name outside
\* the approved set only if the name is a key of the map it injected itself;
\* whatever else the earlier run injected is denied.
C22_NoInjectedModuleLeak ==
    \A r1, r2 \in Runs :
        EndedBefore(r1, r2) =>
            \A i \in 1..Len(resolved[r2]) :
                (resolved[r2][i].result.ok
                    /\ resolved[r2][i].name \notin DOMAIN communityModules)
                  => resolved[r2][i].name \in DOMAIN args[r2].modules

\* C23: whatever calls were made, with whatever maps and scripts, every
\* approved name is bound to the implementation it had at startup.
C23_ApprovedSetIsUnchanged ==
    \A m \in DOMAIN communityModules :
        /\ safeModuleResolver(m) = Found(communityModules[m])
        /\ heap[HostObject(communityModules[m])] = "pristine"

\* The handler of request r has called executeUserScript
Executed(r) == invoked[r]["executeUserScript"] = 1

\* C24: the environment passed to executeUserScript holds FLOW_ID, equal to
\* the flowId of the request also when the resolved secrets have a FLOW_ID of
\* their own, and every other resolved secret under its key, unchanged.
C24_EnvironmentCarriesFlowId ==
    \A r \in Runs :
        Executed(r) =>
            LET resolvedSecrets == secretsOutcome[r].map
                env == args[r].secrets
            IN /\ DOMAIN env = DOMAIN resolvedSecrets \cup {"FLOW_ID"}
               /\ env["FLOW_ID"] = <<request[r].flowId>>
               /\ \A k \in DOMAIN resolvedSecrets \ {"FLOW_ID"} :
                      env[k] = resolvedSecrets[k]

\* A flow with a FLOW_ID secret of its own was run, and its script read the
\* request's flowId from env.FLOW_ID
C24_Witness ==
    \E r \in Runs :
        /\ Executed(r)
        /\ request[r].flowId = "f-env"
        /\ secretsOutcome[r].map["FLOW_ID"] = <<"spoofed">>
        /\ args[r].secrets["FLOW_ID"] = <<"f-env">>
        /\ outcomes[r] = <<ExecutionSuccess(Str(<<"f-env">>))>>

\* projects/<p>/secrets/<s>/versions/(latest|<digits>), written out: eleven
\* atoms or more, the names single atoms other than the separator
ReferencePattern(value) ==
    /\ Len(value) >= 11
    /\ SubSeq(value, 1, 2) = <<"projects", "/">>
    /\ value[3] # "/"
    /\ SubSeq(value, 4, 6) = <<"/", "secrets", "/">>
    /\ value[7] # "/"
    /\ SubSeq(value, 8, 10) = <<"/", "versions", "/">>
    /\ \/ SubSeq(value, 11, Len(value)) = <<"latest">>
       \/ \A i \in 11..Len(value) : value[i] \in Digits

\* resolveUserSecrets succeeded for request r
SecretsFulfilled(r) == secretsOutcome[r].status = "fulfilled"

\* C25: when resolveUserSecrets succeeds its result has the keys of its
\* input; a value that is not of the reference pattern is returned as it is
\* and the resolver is never asked for it, and a value of the pattern is
\* replaced by what the resolver returned for it.
C25_SecretsResolvedKeyByKey ==
    /\ [](\A r \in Runs :
            SecretsFulfilled(r) =>
                LET input == flow[r][1].secretReferences
                    result == secretsOutcome[r].map
                IN /\ DOMAIN result = DOMAIN input
                   /\ \A k \in DOMAIN input :
                         result[k] = IF ReferencePattern(input[k])
                                     THEN GsmData(input[k]) ELSE input[k])
    /\ [][\A r \in Runs : \A k \in DOMAIN tasks[r] \cap DOMAIN tasks'[r] :
            tasks'[r][k] # tasks[r][k]
                => ReferencePattern(flow[r][1].secretReferences[k])]_vars

\* A map with a reference and a literal was resolved, and so was a map of
\* values that only look like references
C25_Witness ==
    \E r1, r2 \in Runs :
        /\ SecretsFulfilled(r1)
        /\ request[r1].flowId = "f-ok"
        /\ secretsOutcome[r1].map["API_KEY"] = GsmData(RefApiKey)
        /\ secretsOutcome[r1].map["REGION"] = <<"eu">>
        /\ SecretsFulfilled(r2)
        /\ request[r2].flowId = "f-env"
        /\ secretsOutcome[r2].map["OLD"] = RefBadVersion
        /\ secretsOutcome[r2].map["DEEP"] = RefTooDeep

\* The body of request r, which has arrived, is not JSON
Unparsable(r) == hpc[r] # "idle" /\ ~request[r].body.json

\* C26: a request whose body is not JSON is answered 400 'rejected', leaves
\* exactly one audit record (FAIL, userId and flowName 'unknown'), and none
\* of getFlowDocument, resolveUserSecrets, executeUserScript and
\* dispatchActionAsynchronously is called for it.
C26_UnparsableBodyIsRejected ==
    \A r \in Runs :
        Unparsable(r) =>
            /\ Len(response[r]) = 1
            /\ response[r][1].code = 400
            /\ response[r][1].status = "rejected"
            /\ Len(audit[r]) = 1
            /\ audit[r][1].status = "FAIL"
            /\ audit[r][1].userId = "unknown"
            /\ audit[r][1].flowName = "unknown"
            /\ \A callee \in DOMAIN invoked[r] : invoked[r][callee] = 0
            /\ phase[r] = "idle"
            /\ flow[r] = <<>>

\* A request with an unparsable body for an existing, active flow was
\* answered
C26_Witness ==
    \E r \in Runs :
        /\ Unparsable(r)
        /\ request[r].flowId = "f-ok"
        /\ hpc[r] = "done"
        /\ response[r][1].code = 400

\* The host identifier an instruction of a script reaches, if any
HostIdentifier(instr) ==
    IF instr.op = "ref" THEN instr.a
    ELSE IF instr.op \in {"await", "schedule"} /\ instr.a = "setTimeout" THEN "setTimeout"
    ELSE "none"

\* The identifiers the script is meant to find in its scope
ScopedIdentifiers == {"payload", "env", "console", "http"}

\* Modules built into the host's runtime
BuiltinModules == {"fs"}

Pollutes(r) ==
    \E k \in 1..Len(Body(r)) : Body(r)[k] = Assign("Object.prototype")

C29_NoSideEffectAfterTheRun ==
    \A r \in Runs : pending[r].state = "fired" => ~pending[r].afterReturn

\* The requests whose run is executing: executeUserScript was called for
\* them and has not returned
Executing == {r \in Runs : hpc[r] = "exec" /\ phase[r] \in {"vmrun", "suspended", "cont"}}

\* C30: with more requests arriving than the maximum number of concurrent
\* runs (as many requests as the model has, a maximum of one less), the runs
\* executing at the same time never exceed the maximum.
C30_ConcurrentRunsAreBounded ==
    Cardinality(Executing) < Cardinality(Runs)

\* The console calls run r's script has made, and what the sinks hold of them
ConsoleCalls(r) ==
    IF phase[r] = "idle" THEN <<>>
    ELSE SelectSeq(SubSeq(Body(r), 1, ip[r] - 1), LAMBDA i : i.op = "console")
LogsOf(r) == SelectSeq(logs, LAMBDA l : l.run = r)

\* C31: every console.info, console.warn and console.error call of a script
\* reaches the structured logger, at the same level, with the message
\* prefixed by [USER_SCRIPT], and none reaches the host's console.
C31_ConsoleGoesToTheStructuredLogger ==
    \A r \in Runs :
        /\ Len(LogsOf(r)) = Len(ConsoleCalls(r))
        /\ \A k \in 1..Len(LogsOf(r)) :
              /\ LogsOf(r)[k].sink = "logger"
              /\ LogsOf(r)[k].level = ConsoleCalls(r)[k].a
              /\ LogsOf(r)[k].message = <<"[USER_SCRIPT]">> \o ConsoleCalls(r)[k].message

C31_Witness ==
    \E r \in Runs :
        /\ phase[r] = "returned"
        /\ args[r].userCode = LogAll
        /\ {LogsOf(r)[k].level : k \in 1..Len(LogsOf(r))} = ConsoleMethods

\* C32: a run the engine ended at its deadline, whose failure carries the
\* engine's message 'Script execution timed out after 5000ms', is audited
\* with status TIMEOUT, and every other failed run with status FAIL.
C32_DeadlineIsAuditedAsTimeout ==
    \A r \in Runs :
        (Terminal(r) /\ phase[r] = "returned" /\ ~outcomes[r][1].success) =>
            /\ Len(audit[r]) = 1
            /\ audit[r][1].status =
                  IF outcomes[r][1].error = TimeoutMessage THEN "TIMEOUT" ELSE "FAIL"

\* The store was read for r's request, and getFlowDocument has answered
FlowAnswered(r) ==
    /\ db = "firestore"
    /\ invoked[r]["getFlowDocument"] = 1
    /\ hpc[r] # "loadFlow"

\* C33: getFlowDocument returns a flow only when the stored document exists
\* and is active; it returns null when the document is absent, when it is
\* inactive and when the read of the store fails, and the orchestrator
\* answers each of these 404 'rejected', never 500.
C33_OnlyActiveFlowsAreReturned ==
    /\ \A flowId \in RequestFlowIds, readOk \in BOOLEAN :
          LET doc == getFlowDocument(flowId, readOk)
              active == flowId \in DOMAIN FlowStore /\ FlowStore[flowId].isActive
          IN  /\ doc # <<>> => readOk /\ active /\ doc[1] = FlowStore[flowId]
              /\ (~readOk \/ ~active) => doc = <<>>
    /\ \A r \in Runs :
          FlowAnswered(r) =>
              IF flow[r] = <<>>
              THEN /\ hpc[r] = "done"
                   /\ response[r] = <<[code |-> 404, status |-> "rejected",
                                       flowId |-> FlowId(r),
                                       message |-> <<"Flow", FlowId(r), "not", "found,",
                                                     "inactive,", "or", "DB", "connection",
                                                     "failed.">>]>>
                   /\ Len(audit[r]) = 1 /\ audit[r][1].status = "FAIL"
              ELSE /\ FlowId(r) \in DOMAIN FlowStore
                   /\ flow[r] = <<FlowStore[FlowId(r)]>>
                   /\ flow[r][1].isActive

\* The read of an active flow failed
C33_Witness ==
    \E r \in Runs :
        /\ FlowAnswered(r)
        /\ FlowId(r) \in DOMAIN FlowStore /\ FlowStore[FlowId(r)].isActive
        /\ flow[r] = <<>>
        /\ response[r][1].code = 404

\* The result a job carries: absent from the serialised body means undefined
JobResult(job) == IF "result" \in DOMAIN job.body THEN job.body.result ELSE Undefined

\* The jobs the queue holds for a flow, and the requests for that flow whose
\* enqueue was accepted
JobsOf(flowId) == {i \in 1..Len(queue) : queue[i].body.flowId = flowId}
AcceptedFor(flowId) == {r \in Accepted : FlowId(r) = flowId}

\* C34: a request answered 202 has exactly one job in the queue, carrying the
\* flowId, actionUrl and userId of the loaded flow and a result equal to the
\* value the script returned; no request enqueues more than one job.
C34_OneJobPerAnswer202 ==
    /\ \A flowId \in RequestFlowIds :
          Cardinality(JobsOf(flowId)) = Cardinality(AcceptedFor(flowId))
    /\ \A r \in Runs :
          Answered202(r) =>
              /\ r \in Accepted
              /\ \E i \in JobsOf(FlowId(r)) :
                    /\ queue[i].body.flowId = flow[r][1].flowId
                    /\ queue[i].body.actionUrl = flow[r][1].actionUrl
                    /\ queue[i].body.userId = flow[r][1].userId
                    /\ JobResult(queue[i]) = outcomes[r][1].result

\* The cached reference of the build in use
CachedClient == IF backend = "cloudTasks" THEN taskClient ELSE actionQueue

\* A call of dispatchActionAsynchronously ends in this step reporting that the
\* client could not be initialised
InitialisationFails(r) ==
    /\ dispatchStatus[r].state # "returned"
    /\ dispatchStatus'[r].state = "returned"
    /\ \/ Includes(dispatchStatus'[r].error, <<"initialize", "Cloud", "Tasks", "client:">>)
       \/ Includes(dispatchStatus'[r].error, <<"connection", "error">>)

\* C35: over every interleaving of dispatchActionAsynchronously calls the
\* queue client is constructed at most once and then reused, and a failed
\* initialisation leaves the cached reference null.
C35_QueueClientIsASingleton ==
    /\ [](constructions <= 1)
    /\ [][CachedClient # "null" => UNCHANGED <<CachedClient, constructions>>]_vars
    /\ [][\A r \in Runs :
            (CachedClient = "null" /\ InitialisationFails(r)) => CachedClient' = "null"]_vars

\* No value of the map is of the reference pattern
LiteralOnly(flowSecrets) == \A k \in DOMAIN flowSecrets : ~ReferencePattern(flowSecrets[k])

\* resolveUserSecrets was called for request r with a literal-only map
CalledWithLiterals(r) ==
    /\ invoked[r]["resolveUserSecrets"] = 1
    /\ LiteralOnly(flow[r][1].secretReferences)

\* C36: on a map in which no value is of the reference pattern the
\* reference-resolving resolveUserSecrets and the passthrough one return the
\* same map, equal to the input, and the external resolver is never asked.
C36_InjectorsAgreeOnLiterals ==
    \A r \in Runs :
        CalledWithLiterals(r) =>
            LET input == flow[r][1].secretReferences IN
            /\ DOMAIN tasks[r] = DOMAIN input
            /\ \A k \in DOMAIN input :
                  tasks[r][k] = [state |-> "fulfilled", value |-> input[k], error |-> <<>>]
            /\ hpc[r] # "secrets" =>
                  /\ secretsOutcome[r] = [status |-> "fulfilled", map |-> input]
                  /\ secretsOutcome[r] = PassthroughResolveUserSecrets(input)

\* A map of a plain value, an empty value and two near-references was resolved
C36_Witness ==
    \E r \in Runs :
        /\ CalledWithLiterals(r)
        /\ hpc[r] # "secrets"
        /\ DOMAIN flow[r][1].secretReferences = {"FLOW_ID", "OLD", "DEEP", "EMPTY"}
        /\ secretsOutcome[r].map = flow[r][1].secretReferences

\* The secret values the stored flows hold
StoredReferences ==
    UNION {{FlowStore[f].secretReferences[k] : k \in DOMAIN FlowStore[f].secretReferences} :
                f \in DOMAIN FlowStore}

\* C37: a reference the resolver answers with an empty or missing value is a
\* failure 'Failed to resolve secret <reference>' of getSecretFromGSM and of
\* resolveUserSecrets as a whole, so no environment holds an empty string for
\* a reference; an empty literal is passed through unchanged.
C37_EmptyResolutionIsAFailure ==
    /\ \A ref \in {v \in StoredReferences : ReferencePattern(v)} :
          getSecretFromGSM(ref, "empty") =
              [state |-> "rejected", value |-> <<>>,
               error |-> <<"Failed", "to", "resolve", "secret">> \o ref]
    /\ \A r \in Runs :
          invoked[r]["resolveUserSecrets"] = 1 =>
              LET input == flow[r][1].secretReferences IN
              /\ \A k \in DOMAIN tasks[r] :
                    /\ (ReferencePattern(input[k]) /\ tasks[r][k].state = "fulfilled")
                          => tasks[r][k].value # <<>>
                    /\ tasks[r][k].state = "rejected" =>
                          tasks[r][k].error =
                              <<"Failed", "to", "resolve", "secret">> \o input[k]
              /\ ((\E k \in DOMAIN tasks[r] : tasks[r][k].state = "rejected")
                     /\ hpc[r] # "secrets")
                    => secretsOutcome[r].status = "rejected" /\ ~Executed(r)
              /\ Executed(r) =>
                    \A k \in DOMAIN input \ {"FLOW_ID"} :
                        /\ ReferencePattern(input[k]) => args[r].secrets[k] # <<>>
                        /\ input[k] = <<>> => args[r].secrets[k] = <<>>

\* One request ran with its empty literal in the environment, another was
\* refused because a lookup of its reference failed
C37_Witness ==
    \E r1, r2 \in Runs :
        /\ Executed(r1)
        /\ "EMPTY" \in DOMAIN args[r1].secrets
        /\ args[r1].secrets["EMPTY"] = <<>>
        /\ hpc[r2] = "done"
        /\ invoked[r2]["resolveUserSecrets"] = 1
        /\ secretsOutcome[r2] =
              [status |-> "rejected",
               error |-> <<"Failed", "to", "resolve", "secret">> \o RefApiKey]

-----------------------------------------------------------------------------
(* Claims about the direct delivery helper, checked under SpecDirectDelivery *)

\* What sendActionWebhook has to return, given how its request ended
ExpectedStatus(call, reply) ==
    IF call.flow.actionUrl = ""
    THEN [success |-> TRUE, status |-> 204]
    ELSE CASE reply.kind = "response" /\ reply.status \in 200..299 ->
                [success |-> TRUE, status |-> reply.status]
           [] reply.kind = "response" /\ reply.status \notin 200..299 ->
                [success |-> FALSE, status |-> reply.status,
                 error |-> <<"Remote", "server", "returned", "status",
                             ToString(reply.status)>>]
           [] reply.kind = "limit" ->
                [success |-> FALSE,
                 error |-> <<"Action", "Webhook", "Timed", "Out", "(10s", "limit).">>]
           [] reply.kind \in {"networkError", "bodyError"} ->
                [success |-> FALSE, error |-> <<"fetch", "failed">>]
           [] reply.kind = "stringify" ->
                [success |-> FALSE,
                 error |-> <<"Converting", "circular", "structure", "to", "JSON">>]

====
